---- MODULE Spec2Model ----
(***************************************************************************)
(* State-machine model of the keyboard input core of madbailey/scram.      *)
(*                                                                         *)
(* Part 1: InputManager (src/src/core/InputManager.ts), the context-stack  *)
(* dispatcher.  Handlers and contexts are records; the callbacks a handler *)
(* or a context carries (canReceiveInput, handleKey, isActive) are opaque  *)
(* to the router, so a dispatched key is modelled by the answers those     *)
(* callbacks give for it.                                                  *)
(*                                                                         *)
(* Part 2: FocusManager (src/core/FocusManager.ts), the stored focus, the  *)
(* overlay flag and the blur() and focus() calls made on the surfaces.     *)
(*                                                                         *)
(* Part 3: TreeMenu (src/components/TreeMenu.ts), the node tree, its       *)
(* flattening into rows, the keys of the tree and the directory reads      *)
(* that expanding a folder awaits.                                         *)
(*                                                                         *)
(* Part 4: the navigator (Navigator.ts), the keypress listener, the        *)
(* overlay, the focus cycle and the directory shown.                       *)
(*                                                                         *)
(* The four are separate objects.  Spec runs the router, SpecFocus the     *)
(* focus manager, SpecFlatten applies flattenTree to trees and expansion   *)
(* sets, SpecTree runs the keys of a tree menu, SpecLoad its public        *)
(* methods with up to MaxLoadReads reads in flight, SpecNavigator the      *)
(* navigator's keys and callbacks; each leaves the other objects as        *)
(* constructed.                                                            *)
(***************************************************************************)
EXTENDS Integers, Sequences, FiniteSets, TLC

\* ------------------------------------------------------------------------
\* Bounds of the model
\* ------------------------------------------------------------------------

\* directories lie at depths 0..MaxDirDepth below the root of the file system
MaxDirDepth == 2

\* handler priorities range over 1..MaxPriority
MaxPriority == 2

\* at most MaxHandlers handlers are registered at a time, over all contexts
\* and the global list
MaxHandlers == 2

\* the trees flattenTree is applied to have at most MaxNodes nodes
MaxNodes == 4

\* a tree menu is constructed with at most MaxMenuNodes nodes
MaxMenuNodes == 2

\* a directory read finds entries only down to depth MaxDepth (roots are at
\* depth 0)
MaxDepth == 2

\* at most MaxReads directory reads are in flight at a time while keys are
\* pressed
MaxReads == 1

\* at most MaxLoadReads directory reads are in flight at a time while the
\* public methods are called
MaxLoadReads == 2

\* setNodes is given at most MaxRootNodes nodes
MaxRootNodes == 1

\* ------------------------------------------------------------------------
\* Value sets
\* ------------------------------------------------------------------------

\* "navigation" is the base context of the constructor, "modal" the context
\* InputContexts.ts registers, "overlay" the context its comment announces
ContextIds == {"navigation", "modal", "overlay"}

HandlerIds == {"h1", "h2"}

Priorities == 1..MaxPriority

\* interface InputHandler: id and priority; the two callbacks are answered
\* per key (see relevantKeys)
InputHandler == [id : HandlerIds, priority : Priorities]

\* the handlers arrays contexts are registered with: empty (constructor,
\* InputContexts.ts) or holding one handler (tests)
InitialHandlers == {<<>>} \cup {<<h>> : h \in InputHandler}

\* interface InputContext; hasIsActive tells whether the optional isActive
\* callback is present, blocksLowerPriority is FALSE when left undefined.
\* The records registered are those of the sources: "navigation" as the
\* constructor registers it, "modal" as InputContexts.ts registers it
\* (blocking, no isActive), "overlay" with an isActive callback, blocking or not
InputContext ==
  {c \in [id : ContextIds, handlers : InitialHandlers,
          blocksLowerPriority : BOOLEAN, hasIsActive : BOOLEAN] :
     /\ c.id = "navigation" => ~c.blocksLowerPriority /\ ~c.hasIsActive
     /\ c.id = "modal" => c.blocksLowerPriority /\ ~c.hasIsActive
     /\ c.id = "overlay" => c.hasIsActive}

\* ------------------------------------------------------------------------
\* State
\* ------------------------------------------------------------------------

VARIABLES
  contexts,        \* Map<string, InputContext>: a function on the registered ids
  contextStack,    \* string[], top = last element
  globalHandlers,  \* InputHandler[]
  lastOp,          \* the last call made on the router and how it ended
  invoked,         \* the callbacks the last handleKey called, in order, with
                   \* their answers
  result           \* the value the last handleKey returned

\* the FocusManager (src/core/FocusManager.ts)
VARIABLES
  currentFocus,    \* FocusableComponent: the stored focus
  overlayVisible,  \* boolean
  components,      \* the component set for each surface, or null
  lastFocusOp,     \* the last call made on the focus manager, the stored
                   \* focus it started from, and the same for the call before
  focusCalls       \* the blur() and focus() calls the last call issued, in order

focusVars == <<currentFocus, overlayVisible, components, lastFocusOp, focusCalls>>

\* the TreeMenu (src/components/TreeMenu.ts)
VARIABLES
  nodes,           \* TreeNode[]: the roots, each with its children
  expanded,        \* Set<string>: the expansion set
  rows,            \* TreeRow[]
  selectedIndex,   \* the index the SelectRenderable holds, counted from 0
  callbacks,       \* the callbacks options gave, of onNodeSelected, onKeyPress
                   \* and onGoUp
  pendingReads,    \* the directory reads expandNode awaits, oldest first
  lastTreeOp,      \* the last call made on the tree menu
  treeSignals      \* the callbacks the last call invoked, in order

treeVars == <<nodes, expanded, rows, selectedIndex, callbacks, pendingReads,
              lastTreeOp, treeSignals>>

\* the navigator (Navigator.ts): the overlay, the focus cycle and the
\* directory shown
VARIABLES
  overlayRootVisible, \* overlayRoot.visible
  overlayValue,       \* the value of the overlay input bar
  fileTreeFocused,    \* whether the file tree holds the focus of the screen
  focusIndex,         \* the index into focusable, counted from 0
  currentDir,         \* the directory shown, as its depth below the root
  lastKeyOp,          \* the last call made on the navigator and its key
  navigatorCalls      \* the functions the last call went through, in order

navigatorVars == <<overlayRootVisible, overlayValue, fileTreeFocused, focusIndex,
                   currentDir, lastKeyOp, navigatorCalls>>

vars == <<contexts, contextStack, globalHandlers, lastOp, invoked, result,
          focusVars, treeVars, navigatorVars>>

\* the router, the focus manager and the tree menu are separate objects: a call
\* on one leaves the others as they are
focusManagerIdle == UNCHANGED focusVars

treeMenuIdle == UNCHANGED treeVars

inputManagerIdle ==
  UNCHANGED <<contexts, contextStack, globalHandlers, lastOp, invoked, result>>

navigatorIdle == UNCHANGED navigatorVars

\* ------------------------------------------------------------------------
\* FocusManager: values and the state after construction
\* ------------------------------------------------------------------------

FocusableComponent == {"navigator", "preview", "overlay"}

\* the keys of the components object, in the order Object.values walks them
componentOrder == <<"navigator", "preview", "overlay">>

tabOrder == <<"navigator", "preview">>

\* components[name] is null until setComponent; what is set is typed any, and
\* updateComponentFocus asks for its blur and its focus before calling them
NullComponent == [present |-> FALSE, blur |-> FALSE, focus |-> FALSE]

Component ==
  {NullComponent} \cup {[present |-> TRUE, blur |-> b, focus |-> f] : b, f \in BOOLEAN}

\* the record of a call on the focus manager: its name and argument, the
\* stored focus it started from, and name and starting focus of the call
\* before it
focusOp(name, arg, from, before) ==
  [op |-> name, arg |-> arg, from |-> from,
   prevOp |-> before.op, prevFrom |-> before.from]

\* new FocusManager()
FocusManagerInit ==
  /\ currentFocus = "navigator"
  /\ overlayVisible = FALSE
  /\ components = [name \in FocusableComponent |-> NullComponent]
  /\ lastFocusOp = [op |-> "constructor", arg |-> "none", from |-> "navigator",
                    prevOp |-> "none", prevFrom |-> "navigator"]
  /\ focusCalls = <<>>

\* ------------------------------------------------------------------------
\* TreeMenu: values and the state after construction
\* ------------------------------------------------------------------------

TreeNodeKind == {"file", "folder", "action"}

\* A node is [path, type, children, loaded].  A path is the sequence of the
\* names from a root down to the node, as path.join(dirPath, entry.name)
\* builds it; a name is the position among the siblings.  children is <<>>
\* for children: [] and for no children field, loaded is FALSE for
\* loaded: false and for no loaded field.  name, description and size are
\* copied into rows and options and decide nothing: they are left out.
treeNode(path, type, children) ==
  [path |-> path, type |-> type, children |-> children,
   loaded |-> (type = "folder" /\ children # <<>>)]

\* the forests of n nodes of the given kinds whose roots are named i,
\* i + 1, ... under parent
RECURSIVE forestsFrom(_, _, _, _)
forestsFrom(n, kinds, parent, i) ==
  IF n = 0 THEN {<<>>}
  ELSE UNION {
         {<<treeNode(Append(parent, i), type, children)>> \o rest :
            type \in kinds,
            children \in forestsFrom(m - 1, kinds, Append(parent, i), 1),
            rest \in forestsFrom(n - m, kinds, parent, i + 1)} :
         m \in 1..n}

\* the node lists of at most n nodes of the given kinds
forests(n, kinds) == UNION {forestsFrom(k, kinds, <<>>, 1) : k \in 0..n}

\* the nodes of a forest, at every depth
RECURSIVE allNodes(_)
allNodes(forest) ==
  IF forest = <<>> THEN {}
  ELSE {Head(forest)} \cup allNodes(Head(forest).children) \cup allNodes(Tail(forest))

pathsOf(forest) == {n.path : n \in allNodes(forest)}

\* the callbacks main() gives the tree menu
TreeMenuCallbacks == {"onNodeSelected", "onKeyPress", "onGoUp"}

\* the last operation on the tree menu: its name, its key or outcome, whether
\* the key was consumed, and the path it was called with
treeOp(name, arg, consumed) ==
  [op |-> name, arg |-> arg, consumed |-> consumed, at |-> <<>>]

\* new TreeMenu(name, {nodes: []}), before any key: no rows
TreeMenuEmpty ==
  /\ nodes = <<>>
  /\ expanded = {}
  /\ rows = <<>>
  /\ selectedIndex = 0
  /\ callbacks = TreeMenuCallbacks
  /\ pendingReads = <<>>
  /\ lastTreeOp = treeOp("constructor", "none", FALSE)
  /\ treeSignals = <<>>

\* ------------------------------------------------------------------------
\* Navigator: values and the state after buildUi
\* ------------------------------------------------------------------------

\* the depth of process.cwd() below the root of the file system
StartDir == 1

\* focusable, as buildUi fills it: the file tree alone
focusable == <<"fileTree">>

\* a key of the keypress event: name, ctrl, shift and, for the form feed
\* some terminals send for Ctrl+L, sequence
KeyNames == {"escape", "return", "enter", "tab", "f", "l", "/", "x"}

ParsedKey ==
  {key \in [name : KeyNames, ctrl : BOOLEAN, shift : BOOLEAN, sequence : {"\\x0c", ""}] :
     key.sequence = "\\x0c" => key.ctrl /\ key.name \in {"l", "x"}}

NoKey == [name |-> "none", ctrl |-> FALSE, shift |-> FALSE, sequence |-> ""]

keyOp(name, key) == [op |-> name, key |-> key]

\* buildUi: the overlay root is built with visible: false, focusable holds
\* the file tree, focusIndex = 0 and focusUpdate() has focused the tree
NavigatorInit ==
  /\ overlayRootVisible = FALSE
  /\ overlayValue = ""
  /\ fileTreeFocused = TRUE
  /\ focusIndex = 0
  /\ currentDir = StartDir
  /\ lastKeyOp = keyOp("buildUi", NoKey)
  /\ navigatorCalls = <<>>

\* ------------------------------------------------------------------------
\* Array helpers
\* ------------------------------------------------------------------------

\* Array.prototype.includes
includes(seq, x) == \E i \in 1..Len(seq) : seq[i] = x

\* contextStack.filter(id => id !== contextId)
filterOutId(stack, contextId) == SelectSeq(stack, LAMBDA id : id # contextId)

\* handlers.filter(h => h.id !== handlerId)
filterOutHandler(handlers, handlerId) ==
  SelectSeq(handlers, LAMBDA h : h.id # handlerId)

\* one step of the stable sort: h goes behind every handler of a priority
\* greater than or equal to its own
RECURSIVE insertByPriority(_, _)
insertByPriority(sorted, h) ==
  IF sorted = <<>> THEN <<h>>
  ELSE IF Head(sorted).priority >= h.priority
       THEN <<Head(sorted)>> \o insertByPriority(Tail(sorted), h)
       ELSE <<h>> \o sorted

\* handlers.sort((a, b) => b.priority - a.priority): stable, descending
RECURSIVE sortByPriority(_)
sortByPriority(handlers) ==
  IF handlers = <<>> THEN <<>>
  ELSE insertByPriority(
         sortByPriority(SubSeq(handlers, 1, Len(handlers) - 1)),
         handlers[Len(handlers)])

\* registerHandler without the filter: an earlier handler of the id stays
addHandlerKeepingOld(handlers, handler) ==
  sortByPriority(Append(handlers, handler))

\* filter, push, sort of registerHandler and registerGlobalHandler
addHandler(handlers, handler) ==
  sortByPriority(Append(filterOutHandler(handlers, handler.id), handler))

\* contexts.has(contextId)
hasContext(contextId) == contextId \in DOMAIN contexts

\* a set that keeps the handlers of a record already in the map
setContextKeepingHandlers(map, context) ==
  [id \in DOMAIN map \cup {context.id} |->
     IF id # context.id THEN map[id]
     ELSE IF id \in DOMAIN map
     THEN [context EXCEPT !.handlers = map[id].handlers]
     ELSE context]

\* contexts.set(context.id, context)
setContext(map, context) ==
  [id \in DOMAIN map \cup {context.id} |->
     IF id = context.id THEN context ELSE map[id]]

\* pushContext without the filter: the id is pushed again
pushedStackKeepingOld(stack, contextId) == Append(stack, contextId)

\* pushContext replacing the stack by the pushed id
pushedStackAlone(stack, contextId) == <<contextId>>

\* the stack pushContext leaves: the id removed, then pushed on top
pushedStack(stack, contextId) == Append(filterOutId(stack, contextId), contextId)

\* popContext as a plain pop: the top goes, whatever the id
poppedStackTop(stack, contextId) ==
  IF stack = <<>> THEN stack ELSE SubSeq(stack, 1, Len(stack) - 1)

\* the stack popContext leaves
poppedStack(stack, contextId) == filterOutId(stack, contextId)

\* number of handlers registered in all contexts and globally
RECURSIVE sumHandlers(_)
sumHandlers(ids) ==
  IF ids = {} THEN 0
  ELSE LET id == CHOOSE x \in ids : TRUE
       IN Len(contexts[id].handlers) + sumHandlers(ids \ {id})

handlerCount == Len(globalHandlers) + sumHandlers(DOMAIN contexts)

\* ------------------------------------------------------------------------
\* Dispatch (handleKey)
\* ------------------------------------------------------------------------

\* one callback call of a dispatch: fn is "canReceiveInput", "handleKey" or
\* "isActive"; scope is "global" or the context id; id is the handler id
\* ("" for isActive)
call(fn, scope, id, answer) ==
  [fn |-> fn, scope |-> scope, id |-> id, answer |-> answer]

\* handler.canReceiveInput()
canReceiveInput(handler, k) == handler.id \in k.can

\* handler.handleKey(key)
consumesKey(handler, k) == handler.id \in k.consumes

\* the loop without its return: the handlers after the consumer are tried too
RECURSIVE tryHandlersNoReturn(_, _, _)
tryHandlersNoReturn(handlers, scope, k) ==
  IF handlers = <<>> THEN [calls |-> <<>>, consumed |-> FALSE]
  ELSE LET handler == Head(handlers)
           asked == call("canReceiveInput", scope, handler.id,
                         canReceiveInput(handler, k))
           tried == call("handleKey", scope, handler.id, consumesKey(handler, k))
           rest == tryHandlersNoReturn(Tail(handlers), scope, k)
       IN IF ~canReceiveInput(handler, k)
          THEN [calls |-> <<asked>> \o rest.calls, consumed |-> rest.consumed]
          ELSE [calls |-> <<asked, tried>> \o rest.calls,
                consumed |-> consumesKey(handler, k) \/ rest.consumed]

\* the loop with the answer of canReceiveInput() ignored
RECURSIVE tryHandlersUngated(_, _, _)
tryHandlersUngated(handlers, scope, k) ==
  IF handlers = <<>> THEN [calls |-> <<>>, consumed |-> FALSE]
  ELSE LET handler == Head(handlers)
           asked == call("canReceiveInput", scope, handler.id,
                         canReceiveInput(handler, k))
           tried == call("handleKey", scope, handler.id, consumesKey(handler, k))
       IN IF consumesKey(handler, k)
          THEN [calls |-> <<asked, tried>>, consumed |-> TRUE]
          ELSE LET rest == tryHandlersUngated(Tail(handlers), scope, k)
               IN [calls |-> <<asked, tried>> \o rest.calls,
                   consumed |-> rest.consumed]

\* for (const handler of handlers)
\*   if (handler.canReceiveInput() && handler.handleKey(key)) return true;
\* yields the calls made and whether a handler consumed the key
RECURSIVE tryHandlers(_, _, _)
tryHandlers(handlers, scope, k) ==
  IF handlers = <<>> THEN [calls |-> <<>>, consumed |-> FALSE]
  ELSE LET handler == Head(handlers)
           asked == call("canReceiveInput", scope, handler.id,
                         canReceiveInput(handler, k))
           tried == call("handleKey", scope, handler.id, consumesKey(handler, k))
       IN IF ~canReceiveInput(handler, k)
          THEN LET rest == tryHandlers(Tail(handlers), scope, k)
               IN [calls |-> <<asked>> \o rest.calls, consumed |-> rest.consumed]
          ELSE IF consumesKey(handler, k)
               THEN [calls |-> <<asked, tried>>, consumed |-> TRUE]
               ELSE LET rest == tryHandlers(Tail(handlers), scope, k)
                    IN [calls |-> <<asked, tried>> \o rest.calls,
                        consumed |-> rest.consumed]

\* context.isActive(), called only when the callback is present
isActive(context, k) == context.id \notin k.inactive

\* the break left out
blocksLowerNever(context) == FALSE

\* if (context.blocksLowerPriority) break
blocksLower(context) == context.blocksLowerPriority

\* the loop body with break in the place of continue for an inactive context
scanContextInactiveStops(context, k) ==
  LET gate == IF context.hasIsActive
              THEN <<call("isActive", context.id, "", isActive(context, k))>>
              ELSE <<>>
  IN IF context.hasIsActive /\ ~isActive(context, k)
     THEN [calls |-> gate, consumed |-> FALSE, stop |-> TRUE]
     ELSE LET here == tryHandlers(context.handlers, context.id, k)
          IN [calls |-> gate \o here.calls, consumed |-> here.consumed,
              stop |-> here.consumed \/ blocksLower(context)]

\* the loop body with the break taken by an inactive context too
scanContextInactiveBlocks(context, k) ==
  LET gate == IF context.hasIsActive
              THEN <<call("isActive", context.id, "", isActive(context, k))>>
              ELSE <<>>
  IN IF context.hasIsActive /\ ~isActive(context, k)
     THEN [calls |-> gate, consumed |-> FALSE, stop |-> blocksLower(context)]
     ELSE LET here == tryHandlers(context.handlers, context.id, k)
          IN [calls |-> gate \o here.calls, consumed |-> here.consumed,
              stop |-> here.consumed \/ blocksLower(context)]

\* the body of the loop over the context stack for one registered context:
\* the calls it makes, whether the key was consumed and whether the loop ends
\* here (return true or break)
scanContext(context, k) ==
  LET gate == IF context.hasIsActive
              THEN <<call("isActive", context.id, "", isActive(context, k))>>
              ELSE <<>>
  IN IF context.hasIsActive /\ ~isActive(context, k)
     THEN [calls |-> gate, consumed |-> FALSE, stop |-> FALSE]
     ELSE LET here == tryHandlers(context.handlers, context.id, k)
          IN [calls |-> gate \o here.calls, consumed |-> here.consumed,
              stop |-> here.consumed \/ blocksLower(context)]

\* for (let i = this.contextStack.length - 1; i >= 0; i--), from index i
\* (1-based) down to the bottom of the stack
RECURSIVE scanContexts(_, _)
scanContexts(i, k) ==
  IF i < 1 THEN [calls |-> <<>>, consumed |-> FALSE]
  ELSE IF contextStack[i] \notin DOMAIN contexts THEN scanContexts(i - 1, k)
  ELSE LET here == scanContext(contexts[contextStack[i]], k)
       IN IF here.stop
          THEN [calls |-> here.calls, consumed |-> here.consumed]
          ELSE LET below == scanContexts(i - 1, k)
               IN [calls |-> here.calls \o below.calls,
                   consumed |-> below.consumed]

\* handleKey with the two loops in the other order
dispatchContextsFirst(k) ==
  LET stacked == scanContexts(Len(contextStack), k)
  IN IF stacked.consumed THEN stacked
     ELSE LET global == tryHandlers(globalHandlers, "global", k)
          IN [calls |-> stacked.calls \o global.calls,
              consumed |-> global.consumed]

\* handleKey(key): global handlers first, then the context stack
dispatch(k) ==
  LET global == tryHandlers(globalHandlers, "global", k)
  IN IF global.consumed THEN global
     ELSE LET stacked == scanContexts(Len(contextStack), k)
          IN [calls |-> global.calls \o stacked.calls,
              consumed |-> stacked.consumed]

\* the ids of the handlers registered anywhere
handlerIdsOf(handlers) == {handlers[i].id : i \in 1..Len(handlers)}

registeredHandlerIds ==
  handlerIdsOf(globalHandlers)
    \cup UNION {handlerIdsOf(contexts[c].handlers) : c \in DOMAIN contexts}

\* the contexts on the stack that carry an isActive callback
gatedContexts ==
  {c \in DOMAIN contexts : contexts[c].hasIsActive /\ includes(contextStack, c)}

\* a key as the router sees it: which handlers answer canReceiveInput() with
\* true, which answer handleKey(key) with true, and which contexts answer
\* isActive() with false; one key for every way the callbacks present can
\* answer
relevantKeys ==
  [can : SUBSET registeredHandlerIds, consumes : SUBSET registeredHandlerIds,
   inactive : SUBSET gatedContexts]

\* ------------------------------------------------------------------------
\* Operations
\* ------------------------------------------------------------------------

\* the record of a call: its name, whether it threw, and whether what it
\* names was there before (the id on the stack for pushContext and popContext,
\* a handler of the same id in the list for registerHandler, the id in the
\* map for registerContext, whose record also holds the context passed)
op(name, threw, present) == [op |-> name, threw |-> threw, present |-> present]

noDispatch == invoked' = <<>> /\ result' = FALSE

\* new InputManager(): registers "navigation" and pushes it
InputManagerInit ==
  /\ contexts = [id \in {"navigation"} |->
                   [id |-> "navigation", handlers |-> <<>>,
                    blocksLowerPriority |-> FALSE, hasIsActive |-> FALSE]]
  /\ contextStack = <<"navigation">>
  /\ globalHandlers = <<>>
  /\ lastOp = op("constructor", FALSE, FALSE)
  /\ invoked = <<>>
  /\ result = FALSE

\* the three objects as constructed
Init == InputManagerInit /\ FocusManagerInit /\ TreeMenuEmpty /\ NavigatorInit

\* the handler count once the list of length old has become one of length new
fits(old, new) == handlerCount - old + new <= MaxHandlers

registerContext(context) ==
  /\ fits(IF hasContext(context.id) THEN Len(contexts[context.id].handlers) ELSE 0,
          Len(context.handlers))
  /\ contexts' = setContext(contexts, context)
  /\ lastOp' = [op |-> "registerContext", threw |-> FALSE,
                present |-> hasContext(context.id), context |-> context]
  /\ noDispatch
  /\ focusManagerIdle
  /\ treeMenuIdle
  /\ navigatorIdle
  /\ UNCHANGED <<contextStack, globalHandlers>>

\* pushContext without the contexts.has check
pushContextUnchecked(contextId) ==
  /\ contextStack' = pushedStack(contextStack, contextId)
  /\ lastOp' = op("pushContext", FALSE, includes(contextStack, contextId))
  /\ noDispatch
  /\ focusManagerIdle
  /\ treeMenuIdle
  /\ navigatorIdle
  /\ UNCHANGED <<contexts, globalHandlers>>

pushContext(contextId) ==
  /\ IF ~hasContext(contextId)
     THEN /\ lastOp' = op("pushContext", TRUE, includes(contextStack, contextId))
          /\ UNCHANGED contextStack
     ELSE /\ contextStack' = pushedStack(contextStack, contextId)
          /\ lastOp' = op("pushContext", FALSE, includes(contextStack, contextId))
  /\ noDispatch
  /\ focusManagerIdle
  /\ treeMenuIdle
  /\ navigatorIdle
  /\ UNCHANGED <<contexts, globalHandlers>>

popContext(contextId) ==
  /\ contextStack' = poppedStack(contextStack, contextId)
  /\ lastOp' = op("popContext", FALSE, includes(contextStack, contextId))
  /\ noDispatch
  /\ focusManagerIdle
  /\ treeMenuIdle
  /\ navigatorIdle
  /\ UNCHANGED <<contexts, globalHandlers>>

registerHandler(contextId, handler) ==
  /\ IF ~hasContext(contextId)
     THEN /\ lastOp' = op("registerHandler", TRUE, FALSE)
          /\ UNCHANGED contexts
     ELSE /\ fits(Len(contexts[contextId].handlers),
                  Len(addHandler(contexts[contextId].handlers, handler)))
          /\ contexts' =
               [contexts EXCEPT ![contextId].handlers = addHandler(@, handler)]
          /\ lastOp' = op("registerHandler", FALSE,
                          handler.id \in handlerIdsOf(contexts[contextId].handlers))
  /\ noDispatch
  /\ focusManagerIdle
  /\ treeMenuIdle
  /\ navigatorIdle
  /\ UNCHANGED <<contextStack, globalHandlers>>

unregisterHandler(contextId, handlerId) ==
  /\ IF hasContext(contextId)
     THEN contexts' =
            [contexts EXCEPT ![contextId].handlers = filterOutHandler(@, handlerId)]
     ELSE UNCHANGED contexts
  /\ lastOp' = op("unregisterHandler", FALSE, FALSE)
  /\ noDispatch
  /\ focusManagerIdle
  /\ treeMenuIdle
  /\ navigatorIdle
  /\ UNCHANGED <<contextStack, globalHandlers>>

registerGlobalHandler(handler) ==
  /\ fits(Len(globalHandlers), Len(addHandler(globalHandlers, handler)))
  /\ globalHandlers' = addHandler(globalHandlers, handler)
  /\ lastOp' = op("registerGlobalHandler", FALSE, FALSE)
  /\ noDispatch
  /\ focusManagerIdle
  /\ treeMenuIdle
  /\ navigatorIdle
  /\ UNCHANGED <<contexts, contextStack>>

unregisterGlobalHandler(handlerId) ==
  /\ globalHandlers' = filterOutHandler(globalHandlers, handlerId)
  /\ lastOp' = op("unregisterGlobalHandler", FALSE, FALSE)
  /\ noDispatch
  /\ focusManagerIdle
  /\ treeMenuIdle
  /\ navigatorIdle
  /\ UNCHANGED <<contexts, contextStack>>

\* handleKey(key), for every way the callbacks can answer the key
handleKey ==
  \E k \in relevantKeys :
    /\ invoked' = dispatch(k).calls
    /\ result' = dispatch(k).consumed
    /\ lastOp' = op("handleKey", FALSE, FALSE)
    /\ UNCHANGED <<contexts, contextStack, globalHandlers>>
    /\ focusManagerIdle
    /\ treeMenuIdle
    /\ navigatorIdle
  /\ treeMenuIdle
  /\ navigatorIdle

Next ==
  \/ \E context \in InputContext : registerContext(context)
  \/ \E contextId \in ContextIds : pushContext(contextId)
  \/ \E contextId \in ContextIds : popContext(contextId)
  \/ \E contextId \in ContextIds, handler \in InputHandler :
       registerHandler(contextId, handler)
  \/ \E contextId \in ContextIds, handlerId \in HandlerIds :
       unregisterHandler(contextId, handlerId)
  \/ \E handler \in InputHandler : registerGlobalHandler(handler)
  \/ \E handlerId \in HandlerIds : unregisterGlobalHandler(handlerId)
  \/ handleKey

Spec == Init /\ [][Next]_vars

\* ------------------------------------------------------------------------
\* Shared vocabulary of the properties
\* ------------------------------------------------------------------------

\* getCurrentContext()?.id, "" standing for null
getCurrentContext ==
  IF Len(contextStack) = 0 THEN ""
  ELSE IF hasContext(contextStack[Len(contextStack)])
       THEN contextStack[Len(contextStack)] ELSE ""

\* isContextActive(contextId)
isContextActive(contextId) == includes(contextStack, contextId)

NoDuplicates(seq) == \A i, j \in 1..Len(seq) : seq[i] = seq[j] => i = j

Before(seq, x, y) == \E i, j \in 1..Len(seq) : i < j /\ seq[i] = x /\ seq[j] = y

\* x and y, both different from id, stand in the same order in before and after
SameOrderOfOthers(before, after, id) ==
  \A x, y \in ContextIds \ {id} : Before(before, x, y) <=> Before(after, x, y)

\* the ids other than id are on the stack after iff they were before
SameOthers(before, after, id) ==
  \A x \in ContextIds \ {id} : includes(before, x) <=> includes(after, x)

routerState == <<contexts, contextStack, globalHandlers>>

\* ------------------------------------------------------------------------
\* Vocabulary of the dispatch properties
\* ------------------------------------------------------------------------

dispatched == lastOp.op = "handleKey"

Calls == 1..Len(invoked)

handlersOf(scope) ==
  IF scope = "global" THEN globalHandlers ELSE contexts[scope].handlers

positionIn(handlers, id) == CHOOSE p \in 1..Len(handlers) : handlers[p].id = id

priorityIn(scope, id) ==
  handlersOf(scope)[positionIn(handlersOf(scope), id)].priority

IsHandleKey(i) == invoked[i].fn = "handleKey"

IsCanReceive(i) == invoked[i].fn = "canReceiveInput"

Consumed(i) == IsHandleKey(i) /\ invoked[i].answer

\* the call after call i asks handler h of scope whether it can receive input
NextAsks(i, scope, h) ==
  /\ i < Len(invoked)
  /\ invoked[i + 1].fn = "canReceiveInput"
  /\ invoked[i + 1].scope = scope
  /\ invoked[i + 1].id = h.id

\* the ids asked canReceiveInput() in scope, in the order of the calls
askedIn(scope) ==
  SelectSeq(invoked, LAMBDA c : c.fn = "canReceiveInput" /\ c.scope = scope)

\* the handlers of scope were asked from the first on, in list order, and all
\* of them unless one of the scope consumed the key
AskedInListOrder(scope) ==
  LET asked == askedIn(scope)
      handlers == handlersOf(scope)
  IN /\ Len(asked) <= Len(handlers)
     /\ \A p \in 1..Len(asked) : asked[p].id = handlers[p].id
     /\ Len(asked) < Len(handlers) =>
          /\ Consumed(Len(invoked))
          /\ invoked[Len(invoked)].scope = scope
          /\ invoked[Len(invoked)].id = asked[Len(asked)].id

DescendingCalls(scope) ==
  \A i, j \in Calls :
    (i < j /\ IsHandleKey(i) /\ IsHandleKey(j)
       /\ invoked[i].scope = scope /\ invoked[j].scope = scope)
      => priorityIn(scope, invoked[i].id) >= priorityIn(scope, invoked[j].id)

\* a handler that can receive input is invoked right after saying so
ReceiversInvoked ==
  \A i \in Calls :
    (IsCanReceive(i) /\ invoked[i].answer) =>
      /\ i < Len(invoked)
      /\ IsHandleKey(i + 1)
      /\ invoked[i + 1].scope = invoked[i].scope
      /\ invoked[i + 1].id = invoked[i].id

\* a callback of scope was called
touched(scope) == \E i \in Calls : invoked[i].scope = scope

\* a handler of scope was asked whether it can receive input
reached(scope) == askedIn(scope) # <<>>

SeenInactive(c) ==
  \E i \in Calls :
    invoked[i].fn = "isActive" /\ invoked[i].scope = c /\ ~invoked[i].answer

\* c is active for certain: it has no isActive callback, or the callback was
\* called and answered true
SurelyActive(c) ==
  \/ ~contexts[c].hasIsActive
  \/ \E i \in Calls :
       invoked[i].fn = "isActive" /\ invoked[i].scope = c /\ invoked[i].answer

ConsumedIn(scope) == \E i \in Calls : Consumed(i) /\ invoked[i].scope = scope

\* no callback of a context below stack position p was called
NothingBelow(p) == \A q \in 1..(p - 1) : ~touched(contextStack[q])

\* ------------------------------------------------------------------------
\* C2 as claimed: an active blocking context on the stack none of whose
\* handlers consumes the key keeps every lower context from being called and
\* makes handleKey return false
\* ------------------------------------------------------------------------
C2_BlockingFloorReturnsFalse ==
  dispatched =>
    \A p \in 1..Len(contextStack) :
      LET c == contextStack[p]
      IN (contexts[c].blocksLowerPriority /\ SurelyActive(c) /\ ~ConsumedIn(c))
           => NothingBelow(p) /\ ~result

\* ------------------------------------------------------------------------
\* C2 as amended: an active blocking context on the stack none of whose
\* handlers consumes the key keeps every lower context from being called;
\* handleKey then returns false unless a global handler or a handler of a
\* context above it consumed the key
\* ------------------------------------------------------------------------
C2_BlockingFloor ==
  dispatched =>
    \A p \in 1..Len(contextStack) :
      LET c == contextStack[p]
      IN (contexts[c].blocksLowerPriority /\ ~SeenInactive(c) /\ ~ConsumedIn(c))
           => /\ NothingBelow(p)
              /\ (~ConsumedIn("global")
                    /\ \A q \in (p + 1)..Len(contextStack) :
                         ~ConsumedIn(contextStack[q]))
                   => ~result

\* the handler of a blocking context declined the key, a lower context holds
\* a handler, which was not called, and handleKey returned false
C2_Witness ==
  /\ dispatched
  /\ ~result
  /\ \E p \in 2..Len(contextStack) :
       LET c == contextStack[p]
       IN /\ contexts[c].blocksLowerPriority
          /\ \E i \in Calls :
               IsHandleKey(i) /\ invoked[i].scope = c /\ ~invoked[i].answer
          /\ \E q \in 1..(p - 1) : contexts[contextStack[q]].handlers # <<>>
          /\ NothingBelow(p)

\* ------------------------------------------------------------------------
\* C3: every global handler is tried, in descending priority, before any
\* context callback is called; when a global handler consumes the key no
\* context handler is invoked and handleKey returns true
\* ------------------------------------------------------------------------
C3_GlobalHandlersFirst ==
  dispatched =>
    /\ \A i, j \in Calls :
         (i < j /\ invoked[j].scope = "global") => invoked[i].scope = "global"
    /\ DescendingCalls("global")
    /\ AskedInListOrder("global")
    /\ (\E i \in Calls : invoked[i].scope # "global") =>
         /\ Len(askedIn("global")) = Len(globalHandlers)
         /\ ~ConsumedIn("global")
    /\ ConsumedIn("global") =>
         /\ result
         /\ \A i \in Calls : invoked[i].scope = "global"

\* a global handler consumed the key while the current context held a
\* handler, which was not called
C3_Witness ==
  /\ dispatched
  /\ result
  /\ ConsumedIn("global")
  /\ contexts[contextStack[Len(contextStack)]].handlers # <<>>
  /\ ~touched(contextStack[Len(contextStack)])

\* ------------------------------------------------------------------------
\* C4: handleKey of a handler is called only right after its
\* canReceiveInput() answered true; after an answer of false the handler is
\* not called and the next handler of the list is asked
\* ------------------------------------------------------------------------
C4_CanReceiveInputGates ==
  dispatched =>
    \A i \in Calls :
      /\ IsHandleKey(i) =>
           /\ i > 1
           /\ invoked[i - 1] =
                call("canReceiveInput", invoked[i].scope, invoked[i].id, TRUE)
      /\ (IsCanReceive(i) /\ ~invoked[i].answer) =>
           LET handlers == handlersOf(invoked[i].scope)
               p == positionIn(handlers, invoked[i].id)
           IN /\ \A j \in Calls :
                   (IsHandleKey(j) /\ invoked[j].scope = invoked[i].scope)
                     => invoked[j].id # invoked[i].id
              /\ p < Len(handlers) =>
                   NextAsks(i, invoked[i].scope, handlers[p + 1])

\* the first handler of a list could not receive input, the second one was
\* asked next and consumed the key
C4_Witness ==
  /\ dispatched
  /\ result
  /\ \E i \in Calls :
       /\ IsCanReceive(i) /\ ~invoked[i].answer
       /\ i + 2 = Len(invoked)
       /\ invoked[i + 1].scope = invoked[i].scope
       /\ invoked[i + 1].id # invoked[i].id

\* ------------------------------------------------------------------------
\* C5: a context on the stack whose isActive() answers false has none of its
\* handlers called, and the scan goes on with the context below it
\* ------------------------------------------------------------------------
ScanGoesOnAfter(i, d) ==
  IF contexts[d].hasIsActive
  THEN /\ i < Len(invoked)
       /\ invoked[i + 1].fn = "isActive"
       /\ invoked[i + 1].scope = d
  ELSE contexts[d].handlers # <<>> => NextAsks(i, d, contexts[d].handlers[1])

C5_InactiveContextSkipped ==
  dispatched =>
    \A i \in Calls :
      (invoked[i].fn = "isActive" /\ ~invoked[i].answer) =>
        LET c == invoked[i].scope
            p == CHOOSE q \in 1..Len(contextStack) : contextStack[q] = c
        IN /\ \A j \in Calls : invoked[j].scope = c => j = i
           /\ p > 1 => ScanGoesOnAfter(i, contextStack[p - 1])

\* an inactive context holding a handler was skipped and a handler of the
\* context below it consumed the key
C5_Witness ==
  /\ dispatched
  /\ result
  /\ \E i \in Calls :
       /\ invoked[i].fn = "isActive" /\ ~invoked[i].answer
       /\ contexts[invoked[i].scope].handlers # <<>>
       /\ Consumed(Len(invoked))
       /\ invoked[Len(invoked)].scope \in ContextIds \ {invoked[i].scope}

\* ------------------------------------------------------------------------
\* C6: the context stack never holds an id twice; pushContext(id) of an id
\* already on the stack moves it to the top, keeps the relative order of the
\* other ids, and makes it the current context
\* ------------------------------------------------------------------------
PushMovesToTop ==
  lastOp'.op = "pushContext" =>
  \A id \in ContextIds :
    (pushContext(id) /\ id \in DOMAIN contexts) =>
      /\ contextStack'[Len(contextStack')] = id
      /\ getCurrentContext' = id
      /\ SameOthers(contextStack, contextStack', id)
      /\ SameOrderOfOthers(contextStack, contextStack', id)
      /\ includes(contextStack, id) => Len(contextStack') = Len(contextStack)

C6_StackDedupAndPromote ==
  [](NoDuplicates(contextStack)) /\ [][PushMovesToTop]_vars

\* an id that was at the bottom of a stack of three has been pushed again
C6_Witness ==
  /\ lastOp = op("pushContext", FALSE, TRUE)
  /\ contextStack = <<"modal", "overlay", "navigation">>

\* ------------------------------------------------------------------------
\* C7: pushContext(id) and registerHandler(id, h) with an id that is not
\* registered throw, and leave the stack, the contexts and the handler lists
\* as they were
\* ------------------------------------------------------------------------
UnknownContextRejected ==
  lastOp'.op \in {"pushContext", "registerHandler"} =>
  \A id \in ContextIds :
    id \notin DOMAIN contexts =>
      /\ pushContext(id) => lastOp'.threw /\ UNCHANGED routerState
      /\ \A h \in InputHandler :
           registerHandler(id, h) => lastOp'.threw /\ UNCHANGED routerState

C7_UnknownContextFails ==
  [][UnknownContextRejected]_vars
    /\ [](\A i \in 1..Len(contextStack) : contextStack[i] \in DOMAIN contexts)

\* a push was rejected while two contexts were registered and stacked
C7_Witness ==
  /\ lastOp.op = "pushContext" /\ lastOp.threw
  /\ Len(contextStack) = 2
  /\ Cardinality(DOMAIN contexts) = 2

\* ------------------------------------------------------------------------
\* C8: every context's handler list holds at most one handler per id and is
\* in descending priority order; registerHandler of an id already in the list
\* replaces the earlier handler, the list keeps its length and the handler
\* stands where its new priority puts it
\* ------------------------------------------------------------------------
UniqueIds(handlers) ==
  \A i, j \in 1..Len(handlers) : handlers[i].id = handlers[j].id => i = j

Descending(handlers) ==
  \A i, j \in 1..Len(handlers) :
    i < j => handlers[i].priority >= handlers[j].priority

others(handlers, id) == SelectSeq(handlers, LAMBDA h : h.id # id)

RegisterHandlerReplaces ==
  lastOp'.op = "registerHandler" =>
  \A c \in DOMAIN contexts, h \in InputHandler :
    registerHandler(c, h) =>
      LET old == contexts[c].handlers
          new == contexts'[c].handlers
      IN /\ \E p \in 1..Len(new) :
              /\ new[p] = h
              /\ \A q \in 1..Len(new) : new[q].id = h.id => q = p
         /\ others(new, h.id) = others(old, h.id)
         /\ Len(new) = IF \E p \in 1..Len(old) : old[p].id = h.id
                       THEN Len(old) ELSE Len(old) + 1
         /\ Descending(new)

UnregisterHandlerRemoves ==
  lastOp'.op = "unregisterHandler" =>
  \A c \in DOMAIN contexts, id \in HandlerIds :
    unregisterHandler(c, id) =>
      /\ contexts'[c].handlers = others(contexts[c].handlers, id)
      /\ \A p \in 1..Len(contexts'[c].handlers) : contexts'[c].handlers[p].id # id

C9_NavigationAlwaysOnStack == includes(contextStack, "navigation")

\* ------------------------------------------------------------------------
\* C9 as amended: "navigation" is registered and current after construction,
\* stays registered, and leaves the stack only by popContext("navigation");
\* pushContext, registerContext and popContext of another id keep it
\* ------------------------------------------------------------------------
NavigationLeavesOnlyByItsPop ==
  (includes(contextStack, "navigation") /\ ~includes(contextStack', "navigation"))
    => popContext("navigation")

C9_NavigationKeptUnlessPopped ==
  /\ getCurrentContext = "navigation"
  /\ []("navigation" \in DOMAIN contexts)
  /\ [][NavigationLeavesOnlyByItsPop]_vars

\* "navigation" has been popped from under another context
C9_Witness ==
  /\ lastOp = op("popContext", FALSE, TRUE)
  /\ ~includes(contextStack, "navigation")
  /\ Len(contextStack) >= 1

\* ------------------------------------------------------------------------
\* C10: popContext(id) removes exactly that id and keeps the order of the
\* others; popping the top makes the context pushed before it the current
\* one; popping an id that is not on the stack changes nothing
\* ------------------------------------------------------------------------
PopRemovesExactlyId ==
  lastOp'.op = "popContext" =>
  \A id \in ContextIds :
    popContext(id) =>
      /\ ~includes(contextStack', id)
      /\ SameOthers(contextStack, contextStack', id)
      /\ SameOrderOfOthers(contextStack, contextStack', id)
      /\ NoDuplicates(contextStack')
      /\ (Len(contextStack) >= 2 /\ contextStack[Len(contextStack)] = id)
           => getCurrentContext' = contextStack[Len(contextStack) - 1]
      /\ ~includes(contextStack, id) => UNCHANGED routerState

C10_PopRemovesOnlyThatId == [][PopRemovesExactlyId]_vars

\* the middle one of three stacked contexts has been popped
C10_Witness ==
  /\ lastOp = op("popContext", FALSE, TRUE)
  /\ Len(contextStack) = 2
  /\ Cardinality(DOMAIN contexts) = 3
  /\ contextStack[1] = "navigation"

\* ========================================================================
\* Part 2: FocusManager (src/core/FocusManager.ts)
\* ========================================================================

\* Array.prototype.indexOf, counting from 0: -1 when x is not in arr
indexOf(arr, x) ==
  IF \E i \in 1..Len(arr) : arr[i] = x
  THEN (CHOOSE i \in 1..Len(arr) :
          arr[i] = x /\ \A j \in 1..(i - 1) : arr[j] # x) - 1
  ELSE -1

\* arr[i], counting from 0
at(arr, i) == arr[i + 1]

\* getCurrentFocus() for a given flag and stored focus
effectiveFocus(visible, focus) == IF visible THEN "overlay" ELSE focus

getCurrentFocus == effectiveFocus(overlayVisible, currentFocus)

isOverlayVisible == overlayVisible

focusCall(fn, name) == [fn |-> fn, on |-> name]

\* the first loop of updateComponentFocus: blur() on what has one
RECURSIVE blurAll(_)
blurAll(names) ==
  IF names = <<>> THEN <<>>
  ELSE (IF components[Head(names)].present /\ components[Head(names)].blur
        THEN <<focusCall("blur", Head(names))>>
        ELSE <<>>) \o blurAll(Tail(names))

\* updateComponentFocus that focuses the target before blurring
updateComponentFocusFirst(visible, focus) ==
  (IF components[effectiveFocus(visible, focus)].present
        /\ components[effectiveFocus(visible, focus)].focus
   THEN <<focusCall("focus", effectiveFocus(visible, focus))>>
   ELSE <<>>) \o blurAll(componentOrder)

\* updateComponentFocus(), run with the given flag and stored focus: the
\* calls it issues, in order
updateComponentFocus(visible, focus) ==
  blurAll(componentOrder) \o
  (IF components[effectiveFocus(visible, focus)].present
        /\ components[effectiveFocus(visible, focus)].focus
   THEN <<focusCall("focus", effectiveFocus(visible, focus))>>
   ELSE <<>>)

\* setFocus without the overlay guard
focusSetUnguarded(visible, focus, component) ==
  [currentFocus |-> component, calls |-> updateComponentFocus(visible, component)]

\* the body of setFocus(component), run with the given flag and stored
\* focus: the stored focus it leaves and the calls it issues
focusSet(visible, focus, component) ==
  IF visible /\ component # "overlay"
  THEN [currentFocus |-> focus, calls |-> <<>>]
  ELSE [currentFocus |-> component, calls |-> updateComponentFocus(visible, component)]

focusKept == [currentFocus |-> currentFocus, calls |-> <<>>]

setComponent(name, component) ==
  /\ components' = [components EXCEPT ![name] = component]
  /\ focusCalls' = <<>>
  /\ lastFocusOp' = focusOp("setComponent", name, currentFocus, lastFocusOp)
  /\ UNCHANGED <<currentFocus, overlayVisible>>
  /\ inputManagerIdle
  /\ treeMenuIdle
  /\ navigatorIdle

setFocus(component) ==
  /\ currentFocus' = focusSet(overlayVisible, currentFocus, component).currentFocus
  /\ focusCalls' = focusSet(overlayVisible, currentFocus, component).calls
  /\ lastFocusOp' = focusOp("setFocus", component, currentFocus, lastFocusOp)
  /\ UNCHANGED <<overlayVisible, components>>
  /\ inputManagerIdle
  /\ treeMenuIdle
  /\ navigatorIdle

\* setOverlayVisible that refocuses only when the overlay is hidden
overlayRefocusOnHideOnly(visible) ==
  IF ~visible /\ currentFocus = "overlay"
  THEN focusSet(visible, currentFocus, "navigator")
  ELSE focusKept

\* setOverlayVisible that refocuses only when the overlay is shown
overlayRefocusOnShowOnly(visible) ==
  IF visible THEN focusSet(visible, currentFocus, "overlay") ELSE focusKept

\* what setOverlayVisible(visible) does after it has stored the flag
overlayRefocus(visible) ==
  IF visible THEN focusSet(visible, currentFocus, "overlay")
  ELSE IF currentFocus = "overlay" THEN focusSet(visible, currentFocus, "navigator")
  ELSE focusKept

setOverlayVisible(visible) ==
  /\ overlayVisible' = visible
  /\ currentFocus' = overlayRefocus(visible).currentFocus
  /\ focusCalls' = overlayRefocus(visible).calls
  /\ lastFocusOp' = focusOp("setOverlayVisible", IF visible THEN "true" ELSE "false",
                            currentFocus, lastFocusOp)
  /\ UNCHANGED components
  /\ inputManagerIdle
  /\ treeMenuIdle
  /\ navigatorIdle

\* the tab order's entry after the stored focus
nextInTabOrder ==
  at(tabOrder, (indexOf(tabOrder, currentFocus) + 1) % Len(tabOrder))

\* the tab order's entry before the stored focus
previousInTabOrder ==
  at(tabOrder, (indexOf(tabOrder, currentFocus) - 1 + Len(tabOrder)) % Len(tabOrder))

tabTo(component) ==
  IF overlayVisible THEN focusKept
  ELSE focusSet(overlayVisible, currentFocus, component)

tabToNext ==
  /\ currentFocus' = tabTo(nextInTabOrder).currentFocus
  /\ focusCalls' = tabTo(nextInTabOrder).calls
  /\ lastFocusOp' = focusOp("tabToNext", "none", currentFocus, lastFocusOp)
  /\ UNCHANGED <<overlayVisible, components>>
  /\ inputManagerIdle
  /\ treeMenuIdle
  /\ navigatorIdle

tabToPrevious ==
  /\ currentFocus' = tabTo(previousInTabOrder).currentFocus
  /\ focusCalls' = tabTo(previousInTabOrder).calls
  /\ lastFocusOp' = focusOp("tabToPrevious", "none", currentFocus, lastFocusOp)
  /\ UNCHANGED <<overlayVisible, components>>
  /\ inputManagerIdle
  /\ treeMenuIdle
  /\ navigatorIdle

\* canNavigatorReceiveInput without the test of the stored focus
canNavigatorWheneverHidden == ~overlayVisible

canNavigatorReceiveInput == ~overlayVisible /\ currentFocus = "navigator"

canPreviewReceiveInput == ~overlayVisible /\ currentFocus = "preview"

canOverlayReceiveInput == overlayVisible

NextFocus ==
  \/ \E name \in FocusableComponent, component \in Component :
       setComponent(name, component)
  \/ \E component \in FocusableComponent : setFocus(component)
  \/ \E visible \in BOOLEAN : setOverlayVisible(visible)
  \/ tabToNext
  \/ tabToPrevious

SpecFocus == Init /\ [][NextFocus]_vars

\* ------------------------------------------------------------------------
\* Properties of the FocusManager
\* ------------------------------------------------------------------------

\* the step issues no blur() and no focus() and leaves the focus state alone
FocusNoOp ==
  /\ UNCHANGED <<currentFocus, overlayVisible, components>>
  /\ focusCalls' = <<>>

NoOpWhileOverlayVisible ==
  overlayVisible =>
    /\ \A s \in FocusableComponent \ {"overlay"} : setFocus(s) => FocusNoOp
    /\ tabToNext => FocusNoOp
    /\ tabToPrevious => FocusNoOp

\* C11: while overlayVisible is true, setFocus(s) for every surface s other
\* than overlay, tabToNext() and tabToPrevious() change neither the stored
\* focus nor overlayVisible and issue no blur() and no focus() call.
C11_OverlayMakesFocusOpsNoOps == [][NoOpWhileOverlayVisible]_vars

\* setFocus("preview") was called under a visible overlay whose surface, and
\* the preview's, have blur() and focus() to call
C11_Witness ==
  /\ overlayVisible
  /\ lastFocusOp.op = "setFocus"
  /\ lastFocusOp.arg = "preview"
  /\ components["preview"].focus
  /\ components["overlay"].blur

\* canNavigatorReceiveInput(), canPreviewReceiveInput() or
\* canOverlayReceiveInput(), by surface
canReceive(surface) ==
  CASE surface = "navigator" -> canNavigatorReceiveInput
    [] surface = "preview" -> canPreviewReceiveInput
    [] surface = "overlay" -> canOverlayReceiveInput

activeSurfaces == {surface \in FocusableComponent : canReceive(surface)}

\* C12: in every state reachable by setFocus, setOverlayVisible, tabToNext
\* and tabToPrevious exactly one of canNavigatorReceiveInput(),
\* canPreviewReceiveInput(), canOverlayReceiveInput() is true, and it is the
\* one of the surface getCurrentFocus() returns.
C12_ExactlyOneSurfaceActive == activeSurfaces = {getCurrentFocus}

\* the last call was setOverlayVisible(false)
OverlayJustHidden ==
  lastFocusOp.op = "setOverlayVisible" /\ lastFocusOp.arg = "false"

C14_OverlayVisibleMeansOverlayFocused ==
  /\ overlayVisible => getCurrentFocus = "overlay" /\ currentFocus = "overlay"
  /\ ~overlayVisible => getCurrentFocus = currentFocus

\* the overlay has just been shown over a focused preview
C14_Witness ==
  /\ overlayVisible
  /\ lastFocusOp.op = "setOverlayVisible"
  /\ lastFocusOp.from = "preview"

\* C15: canNavigatorReceiveInput() is true iff the overlay is not visible and
\* the stored focus is navigator, canPreviewReceiveInput() iff the overlay is
\* not visible and the stored focus is preview, canOverlayReceiveInput() iff
\* the overlay is visible; so under a visible overlay only the overlay's
\* predicate is true.
C15_ReceivePredicates ==
  /\ canNavigatorReceiveInput <=> (~isOverlayVisible /\ currentFocus = "navigator")
  /\ canPreviewReceiveInput <=> (~isOverlayVisible /\ currentFocus = "preview")
  /\ canOverlayReceiveInput <=> isOverlayVisible
  /\ isOverlayVisible => activeSurfaces = {"overlay"}

\* the overlay has just been shown over a focused navigator and is the only
\* surface that can receive input
C15_Witness ==
  /\ overlayVisible
  /\ lastFocusOp.op = "setOverlayVisible"
  /\ lastFocusOp.from = "navigator"
  /\ activeSurfaces = {"overlay"}

\* the last call was tabToNext() or tabToPrevious() under a hidden overlay
\* (neither changes the flag)
Tabbed(name) == ~overlayVisible /\ lastFocusOp.op = name

\* the neighbour of a surface in the cycle navigator -> preview -> navigator
cycleNeighbour(surface) == IF surface = "navigator" THEN "preview" ELSE "navigator"

TabMovesCyclically ==
  Tabbed("tabToNext") \/ Tabbed("tabToPrevious") =>
    /\ currentFocus # "overlay"
    /\ lastFocusOp.from # "overlay" => currentFocus = cycleNeighbour(lastFocusOp.from)

TabRoundTrip ==
  \/ Tabbed("tabToPrevious") /\ lastFocusOp.prevOp = "tabToNext"
  \/ Tabbed("tabToNext") /\ lastFocusOp.prevOp = "tabToPrevious"
  => currentFocus = lastFocusOp.prevFrom

\* C16: with the overlay hidden tabToNext() and tabToPrevious() move the
\* focus cyclically through [navigator, preview], never landing on overlay,
\* and tabToNext() followed by tabToPrevious() (or the reverse) restores the
\* focus the pair started from.
C16_TabCycleAndRoundTrip == TabMovesCyclically /\ TabRoundTrip

\* the last call reached updateComponentFocus: setFocus got past its guard,
\* directly or from setOverlayVisible, tabToNext or tabToPrevious (none of
\* which changes the flag after the guard is evaluated)
FocusTookEffect ==
  \/ lastFocusOp.op = "setFocus" /\ (~overlayVisible \/ lastFocusOp.arg = "overlay")
  \/ lastFocusOp.op \in {"tabToNext", "tabToPrevious"} /\ ~overlayVisible
  \/ lastFocusOp.op = "setOverlayVisible"
       /\ (lastFocusOp.arg = "true" \/ lastFocusOp.from = "overlay")

callsOf(fn) == {i \in 1..Len(focusCalls) : focusCalls[i].fn = fn}

Blurred(surface) == \E i \in callsOf("blur") : focusCalls[i].on = surface

BlursBeforeFocus == \A i \in callsOf("blur"), j \in callsOf("focus") : i < j

\* C17 as stated: every focus change that takes effect calls blur() on every
\* registered surface and then focus() on exactly one surface, the new
\* effective focus, all blur() calls coming before that focus() call.
C17_BlurAllThenFocusOne ==
  FocusTookEffect =>
    /\ \A surface \in FocusableComponent :
         components[surface].present => Blurred(surface)
    /\ Cardinality(callsOf("focus")) = 1
    /\ \A j \in callsOf("focus") : focusCalls[j].on = getCurrentFocus
    /\ BlursBeforeFocus

\* C17 amended: every focus change that takes effect calls blur() once on
\* every registered surface that has a blur() and on no other, and then
\* focus() once on the new effective focus if that surface is registered and
\* has a focus(), on no surface otherwise; all blur() calls come before the
\* focus() call.
C17_BlurRegisteredThenFocusTarget ==
  FocusTookEffect =>
    /\ \A surface \in FocusableComponent :
         Cardinality({i \in callsOf("blur") : focusCalls[i].on = surface}) =
           IF components[surface].present /\ components[surface].blur THEN 1 ELSE 0
    /\ Cardinality(callsOf("focus")) =
         IF components[getCurrentFocus].present /\ components[getCurrentFocus].focus
         THEN 1 ELSE 0
    /\ \A j \in callsOf("focus") : focusCalls[j].on = getCurrentFocus
    /\ BlursBeforeFocus

\* tabToNext() moved the focus among three registered surfaces: three blur()
\* calls, then one focus()
C17_Witness ==
  /\ FocusTookEffect
  /\ lastFocusOp.op = "tabToNext"
  /\ Cardinality(callsOf("blur")) = 3
  /\ Cardinality(callsOf("focus")) = 1

\* ========================================================================
\* Part 3: TreeMenu (src/components/TreeMenu.ts)
\* ========================================================================

treeRow(n, depth) == [id |-> n.path, kind |-> n.type, depth |-> depth]

\* flattenTree that descends into every expanded node that has children,
\* folder or not
RECURSIVE flattenTreeAnyKind(_, _, _, _)
flattenTreeAnyKind(forest, expansion, depth, out) ==
  IF forest = <<>> THEN out
  ELSE flattenTreeAnyKind(
         Tail(forest), expansion, depth,
         IF Head(forest).path \in expansion /\ Len(Head(forest).children) > 0
         THEN flattenTreeAnyKind(Head(forest).children, expansion, depth + 1,
                                 Append(out, treeRow(Head(forest), depth)))
         ELSE Append(out, treeRow(Head(forest), depth)))

\* flattenTree that lists the children of a node two levels below it
RECURSIVE flattenTreeTwoDeeper(_, _, _, _)
flattenTreeTwoDeeper(forest, expansion, depth, out) ==
  IF forest = <<>> THEN out
  ELSE flattenTreeTwoDeeper(
         Tail(forest), expansion, depth,
         IF /\ Head(forest).type = "folder"
            /\ Head(forest).path \in expansion
            /\ Len(Head(forest).children) > 0
         THEN flattenTreeTwoDeeper(Head(forest).children, expansion, depth + 2,
                                   Append(out, treeRow(Head(forest), depth)))
         ELSE Append(out, treeRow(Head(forest), depth)))

\* flattenTree(nodes, expanded, depth, out): the loop over nodes is the
\* recursion over the tail; out is returned as extended
RECURSIVE flattenTree(_, _, _, _)
flattenTree(forest, expansion, depth, out) ==
  IF forest = <<>> THEN out
  ELSE flattenTree(
         Tail(forest), expansion, depth,
         IF /\ Head(forest).type = "folder"
            /\ Head(forest).path \in expansion
            /\ Len(Head(forest).children) > 0
         THEN flattenTree(Head(forest).children, expansion, depth + 1,
                          Append(out, treeRow(Head(forest), depth)))
         ELSE Append(out, treeRow(Head(forest), depth)))

\* refresh that lists the root nodes only
refreshedRoots(forest, expansion) == flattenTree(forest, {}, 0, <<>>)

\* TreeMenu.refresh()
refreshed(forest, expansion) == flattenTree(forest, expansion, 0, <<>>)

\* flattenTree applied to a node list and an expansion set
refresh ==
  /\ rows' = refreshed(nodes, expanded)
  /\ lastTreeOp' = treeOp("refresh", "none", FALSE)
  /\ UNCHANGED <<nodes, expanded, selectedIndex, callbacks, pendingReads, treeSignals>>
  /\ inputManagerIdle
  /\ focusManagerIdle
  /\ navigatorIdle

\* every node list of at most MaxNodes nodes with every expansion set over
\* its paths
FlattenInit ==
  /\ InputManagerInit
  /\ FocusManagerInit
  /\ NavigatorInit
  /\ nodes \in forests(MaxNodes, TreeNodeKind)
  /\ expanded \in SUBSET pathsOf(nodes)
  /\ rows = <<>>
  /\ selectedIndex = 0
  /\ callbacks = TreeMenuCallbacks
  /\ pendingReads = <<>>
  /\ lastTreeOp = treeOp("constructor", "none", FALSE)
  /\ treeSignals = <<>>

NextFlatten == refresh

SpecFlatten == FlattenInit /\ [][NextFlatten]_vars

\* ------------------------------------------------------------------------
\* The tree menu's keys and methods
\* ------------------------------------------------------------------------

\* findNodeById's undefined
NoNode == [path |-> <<>>, type |-> "undefined", children |-> <<>>, loaded |-> FALSE]

RECURSIVE findNodeById(_, _)
findNodeById(id, forest) ==
  IF forest = <<>> THEN NoNode
  ELSE IF Head(forest).path = id THEN Head(forest)
  ELSE IF findNodeById(id, Head(forest).children) # NoNode
  THEN findNodeById(id, Head(forest).children)
  ELSE findNodeById(id, Tail(forest))

\* this.rows[index] is a row
hasRow(index) == index >= 0 /\ index < Len(rows)

\* this.rows[index], index counted from 0
rowAt(index) == rows[index + 1]

getSelectedNode ==
  IF hasRow(selectedIndex) THEN findNodeById(rowAt(selectedIndex).id, nodes) ELSE NoNode

\* the loop of moveToParent from row i down to row 0: the index it selects,
\* or -1 when it ends without selecting
RECURSIVE lookBackwards(_, _)
lookBackwards(i, targetDepth) ==
  IF i < 0 THEN -1
  ELSE IF rowAt(i).depth = targetDepth THEN i
  ELSE IF rowAt(i).depth < targetDepth THEN -1
  ELSE lookBackwards(i - 1, targetDepth)

\* moveToParent that selects the row before, whatever its depth
moveToPreviousRow(index) ==
  IF ~hasRow(index) \/ rowAt(index).depth = 0 THEN -1 ELSE index - 1

\* moveToParent(selectedIndex): the index it selects, or -1 when it returns
\* false
moveToParent(index) ==
  IF ~hasRow(index) \/ rowAt(index).depth = 0 THEN -1
  ELSE lookBackwards(index - 1, rowAt(index).depth - 1)

\* what a key handler decides: whether it handled the key, and the one
\* thing it does (call a callback, select a row, collapse or expand a node)
outcome(handled, do, to) == [handled |-> handled, do |-> do, to |-> to]

notHandled == outcome(FALSE, "nothing", 0)

\* handleRightArrow that expands the folder in place
handleRightArrowExpands(node, index) ==
  IF node.type = "folder" THEN outcome(TRUE, "expandNode", index) ELSE notHandled

handleRightArrow(node, index) ==
  IF node.type = "folder" /\ "onNodeSelected" \in callbacks
  THEN outcome(TRUE, "onNodeSelected", index)
  ELSE notHandled

\* handleLeftArrow that calls onGoUp at every depth
handleLeftArrowAlwaysUp(node, index) ==
  IF "onGoUp" \in callbacks THEN outcome(TRUE, "onGoUp", index)
  ELSE IF moveToParent(index) >= 0
  THEN outcome(TRUE, "setSelectedIndex", moveToParent(index))
  ELSE notHandled

handleLeftArrow(node, index) ==
  IF rowAt(index).depth = 0 /\ "onGoUp" \in callbacks
  THEN outcome(TRUE, "onGoUp", index)
  ELSE IF moveToParent(index) >= 0
  THEN outcome(TRUE, "setSelectedIndex", moveToParent(index))
  ELSE notHandled

toggle(node, index) ==
  IF node.path \in expanded THEN outcome(TRUE, "collapseNode", index)
  ELSE outcome(TRUE, "expandNode", index)

\* handleSpaceKey that only ever expands
handleSpaceKeyExpandsOnly(node, index) ==
  IF node.type = "folder" THEN outcome(TRUE, "expandNode", index) ELSE notHandled

handleSpaceKey(node, index) ==
  IF node.type = "folder" THEN toggle(node, index) ELSE notHandled

\* handleEnterKey that activates folders too
handleEnterKeyActivates(node, index) ==
  IF "onNodeSelected" \in callbacks THEN outcome(TRUE, "onNodeSelected", index)
  ELSE outcome(TRUE, "nothing", index)

handleEnterKey(node, index) ==
  IF node.type = "folder" THEN toggle(node, index)
  ELSE IF "onNodeSelected" \in callbacks THEN outcome(TRUE, "onNodeSelected", index)
  ELSE outcome(TRUE, "nothing", index)

handleTreeNavigation(key) ==
  IF getSelectedNode = NoNode THEN notHandled
  ELSE CASE key = "right" -> handleRightArrow(getSelectedNode, selectedIndex)
         [] key = "left" -> handleLeftArrow(getSelectedNode, selectedIndex)
         [] key = "space" -> handleSpaceKey(getSelectedNode, selectedIndex)
         [] key = "return" -> handleEnterKey(getSelectedNode, selectedIndex)
         [] OTHER -> notHandled

treeSignal(fn, arg) == [fn |-> fn, arg |-> arg]

\* Assigning select.options leaves the index to the SelectRenderable, which
\* is not code of this repository: it keeps the index or brings it back
\* into the new list.
optionsSet(newRows) ==
  selectedIndex' \in
    {selectedIndex,
     IF selectedIndex < Len(newRows) THEN selectedIndex
     ELSE IF Len(newRows) = 0 THEN 0 ELSE Len(newRows) - 1}

\* the forest with the children of the node at path dropped
RECURSIVE unloaded(_, _)
unloaded(forest, path) ==
  [i \in 1..Len(forest) |->
     IF forest[i].path = path
     THEN [forest[i] EXCEPT !.children = <<>>, !.loaded = FALSE]
     ELSE [forest[i] EXCEPT !.children = unloaded(@, path)]]

\* collapseNode that drops the children it hides
collapsingAndUnloading(nodeId) ==
  /\ expanded' = expanded \ {nodeId}
  /\ nodes' = unloaded(nodes, nodeId)
  /\ rows' = refreshed(nodes', expanded')
  /\ optionsSet(rows')
  /\ UNCHANGED pendingReads

\* the body of collapseNode(nodeId)
collapsing(nodeId) ==
  /\ expanded' = expanded \ {nodeId}
  /\ rows' = refreshed(nodes, expanded \ {nodeId})
  /\ optionsSet(refreshed(nodes, expanded \ {nodeId}))
  /\ UNCHANGED <<nodes, pendingReads>>

\* expandNode that awaits no read of a folder whose read is in flight
awaitsReadOnce(nodeId) ==
  /\ findNodeById(nodeId, nodes) # NoNode
  /\ findNodeById(nodeId, nodes).type = "folder"
  /\ ~findNodeById(nodeId, nodes).loaded
  /\ \A i \in 1..Len(pendingReads) : pendingReads[i].path # nodeId

\* expandNode(nodeId) awaits a directory read
awaitsRead(nodeId) ==
  /\ findNodeById(nodeId, nodes) # NoNode
  /\ findNodeById(nodeId, nodes).type = "folder"
  /\ ~findNodeById(nodeId, nodes).loaded

\* expandNode that adds the path before it awaits the read
expandingAtOnce(nodeId) ==
  /\ pendingReads' = IF awaitsRead(nodeId)
                     THEN Append(pendingReads, [path |-> nodeId, attached |-> TRUE])
                     ELSE pendingReads
  /\ expanded' = expanded \cup {nodeId}
  /\ rows' = refreshed(nodes, expanded')
  /\ optionsSet(rows')
  /\ UNCHANGED nodes

\* the body of expandNode(nodeId) up to its await, or to its end when it
\* does not await
expanding(nodeId) ==
  IF awaitsRead(nodeId)
  THEN /\ pendingReads' = Append(pendingReads, [path |-> nodeId, attached |-> TRUE])
       /\ UNCHANGED <<nodes, expanded, rows, selectedIndex>>
  ELSE /\ expanded' = expanded \cup {nodeId}
       /\ rows' = refreshed(nodes, expanded \cup {nodeId})
       /\ optionsSet(refreshed(nodes, expanded \cup {nodeId}))
       /\ UNCHANGED <<nodes, pendingReads>>

treeKept == UNCHANGED <<nodes, expanded, rows, selectedIndex, pendingReads>>

\* a handled key: what handleTreeNavigation's handler did
handled(nav) ==
  CASE nav.do = "onGoUp" ->
         treeSignals' = <<treeSignal("onGoUp", <<>>)>> /\ treeKept
    [] nav.do = "onNodeSelected" ->
         treeSignals' = <<treeSignal("onNodeSelected", getSelectedNode.path)>> /\ treeKept
    [] nav.do = "setSelectedIndex" ->
         /\ selectedIndex' = nav.to
         /\ treeSignals' = <<>>
         /\ UNCHANGED <<nodes, expanded, rows, pendingReads>>
    [] nav.do = "collapseNode" ->
         collapsing(getSelectedNode.path) /\ treeSignals' = <<>>
    [] nav.do = "expandNode" ->
         expanding(getSelectedNode.path) /\ treeSignals' = <<>>
    [] OTHER -> treeSignals' = <<>> /\ treeKept

\* the SelectRenderable's own handleKeyPress (wrapSelection: true): up and
\* down move the selection, every other key leaves it
originalHandleKeyPress(key) ==
  /\ selectedIndex' =
       IF key \notin {"up", "down"} \/ Len(rows) = 0 THEN selectedIndex
       ELSE IF key = "up" THEN (selectedIndex - 1 + Len(rows)) % Len(rows)
       ELSE (selectedIndex + 1) % Len(rows)
  /\ UNCHANGED <<nodes, expanded, rows, pendingReads>>

TreeKeys == {"left", "right", "space", "return"}

Keys == TreeKeys \cup {"up", "down", "other"}

\* select.handleKeyPress(key) for a parsed key
handleKeyPress(key) ==
  /\ IF key \in TreeKeys /\ handleTreeNavigation(key).handled
     THEN /\ handled(handleTreeNavigation(key))
          /\ lastTreeOp' = treeOp("handleKeyPress", key, TRUE)
     ELSE \E blocks \in (IF "onKeyPress" \in callbacks THEN BOOLEAN ELSE {FALSE}) :
            /\ treeSignals' = IF "onKeyPress" \in callbacks
                              THEN <<treeSignal("onKeyPress", <<>>)>> ELSE <<>>
            /\ IF blocks THEN treeKept ELSE originalHandleKeyPress(key)
            /\ lastTreeOp' = treeOp("handleKeyPress", key,
                                    blocks \/ key \in {"up", "down", "return"})
  /\ UNCHANGED callbacks
  /\ inputManagerIdle
  /\ focusManagerIdle
  /\ navigatorIdle

setSelectedIndex(index) ==
  /\ selectedIndex' = index
  /\ treeSignals' = <<>>
  /\ lastTreeOp' = treeOp("setSelectedIndex", "none", FALSE)
  /\ UNCHANGED <<nodes, expanded, rows, callbacks, pendingReads>>
  /\ inputManagerIdle
  /\ focusManagerIdle
  /\ navigatorIdle

expandNode(nodeId) ==
  /\ expanding(nodeId)
  /\ treeSignals' = <<>>
  /\ lastTreeOp' = [treeOp("expandNode", "none", FALSE) EXCEPT !.at = nodeId]
  /\ UNCHANGED callbacks
  /\ inputManagerIdle
  /\ focusManagerIdle
  /\ navigatorIdle

collapseNode(nodeId) ==
  /\ collapsing(nodeId)
  /\ treeSignals' = <<>>
  /\ lastTreeOp' = [treeOp("collapseNode", "none", FALSE) EXCEPT !.at = nodeId]
  /\ UNCHANGED callbacks
  /\ inputManagerIdle
  /\ focusManagerIdle
  /\ navigatorIdle

\* what fs.readdir(dirPath) can do: throw, or list the directory, which is
\* empty below depth MaxDepth and holds a file and a folder above
readdir(dirPath) ==
  {[threw |-> TRUE, entries |-> <<>>],
   [threw |-> FALSE,
    entries |-> IF Len(dirPath) > MaxDepth THEN <<>> ELSE <<"file", "folder">>]}

\* the nodes of the entries of kind type, named in the order of the sort
RECURSIVE nodesOf(_, _, _, _)
nodesOf(entries, type, dirPath, before) ==
  IF entries = <<>> THEN <<>>
  ELSE IF Head(entries) # type THEN nodesOf(Tail(entries), type, dirPath, before)
  ELSE <<[path |-> Append(dirPath, before + 1), type |-> type, children |-> <<>>,
          loaded |-> FALSE]>>
       \o nodesOf(Tail(entries), type, dirPath, before + 1)

\* readDirectory(dirPath) on what fs.readdir did: no node when it threw,
\* else a node for each entry, not loaded, folders first
readDirectory(dirPath, read) ==
  IF read.threw THEN <<>>
  ELSE nodesOf(read.entries, "folder", dirPath, 0)
       \o nodesOf(read.entries, "file", dirPath,
                  Len(nodesOf(read.entries, "folder", dirPath, 0)))

\* loadFolderContents that marks the node loaded only when the read found
\* children
RECURSIVE loadedWhenFound(_, _, _)
loadedWhenFound(forest, path, children) ==
  [i \in 1..Len(forest) |->
     IF forest[i].path = path
     THEN [forest[i] EXCEPT !.children = children, !.loaded = children # <<>>]
     ELSE [forest[i] EXCEPT !.children = loadedWhenFound(@, path, children)]]

\* node.children = children; node.loaded = true, for the node at path
RECURSIVE loaded(_, _, _)
loaded(forest, path, children) ==
  [i \in 1..Len(forest) |->
     IF forest[i].path = path
     THEN [forest[i] EXCEPT !.children = children, !.loaded = TRUE]
     ELSE [forest[i] EXCEPT !.children = loaded(@, path, children)]]

isUnder(path, ancestor) ==
  Len(ancestor) < Len(path) /\ SubSeq(path, 1, Len(ancestor)) = ancestor

\* the reads left once read i has replaced the children of its node: a read
\* for a node below it now holds a node that is no longer in the tree
readsAfter(i) ==
  [j \in 1..(Len(pendingReads) - 1) |->
     LET r == pendingReads[IF j < i THEN j ELSE j + 1]
     IN IF pendingReads[i].attached /\ isUnder(r.path, pendingReads[i].path)
        THEN [r EXCEPT !.attached = FALSE]
        ELSE r]

\* a read whose completion loads the folder and leaves the expansion set
readResolvesUnlisted(i) ==
  /\ i \in 1..Len(pendingReads)
  /\ \E read \in readdir(pendingReads[i].path) :
       /\ nodes' = IF pendingReads[i].attached
                   THEN loaded(nodes, pendingReads[i].path,
                               readDirectory(pendingReads[i].path, read))
                   ELSE nodes
       /\ expanded' = expanded
       /\ rows' = refreshed(nodes', expanded')
       /\ optionsSet(rows')
       /\ pendingReads' = readsAfter(i)
       /\ treeSignals' = <<>>
       /\ lastTreeOp' = treeOp("readResolves",
                               IF read.threw THEN "threw" ELSE "listed", FALSE)
       /\ UNCHANGED callbacks
       /\ inputManagerIdle
       /\ focusManagerIdle
       /\ navigatorIdle

\* the i-th directory read in flight resolves: loadFolderContents stores the
\* children and sets loaded, and expandNode goes on after its await
readResolvesAt(i) ==
  /\ i \in 1..Len(pendingReads)
  /\ \E read \in readdir(pendingReads[i].path) :
       /\ nodes' = IF pendingReads[i].attached
                   THEN loaded(nodes, pendingReads[i].path,
                               readDirectory(pendingReads[i].path, read))
                   ELSE nodes
       /\ expanded' = expanded \cup {pendingReads[i].path}
       /\ rows' = refreshed(nodes', expanded')
       /\ optionsSet(rows')
       /\ pendingReads' = readsAfter(i)
       /\ treeSignals' = <<>>
       /\ lastTreeOp' = treeOp("readResolves",
                               IF read.threw THEN "threw" ELSE "listed", FALSE)
       /\ UNCHANGED callbacks
       /\ inputManagerIdle
       /\ focusManagerIdle
       /\ navigatorIdle

\* some directory read in flight resolves
readResolves == \E i \in 1..Len(pendingReads) : readResolvesAt(i)

\* new TreeMenu(name, options): options.nodes of at most MaxMenuNodes nodes,
\* with the callbacks or without
TreeMenuInit ==
  /\ nodes \in forests(MaxMenuNodes, TreeNodeKind)
  /\ expanded = {}
  /\ rows = refreshed(nodes, {})
  /\ selectedIndex = 0
  /\ callbacks \in {TreeMenuCallbacks, {}}
  /\ pendingReads = <<>>
  /\ lastTreeOp = treeOp("constructor", "none", FALSE)
  /\ treeSignals = <<>>

TreeInit == InputManagerInit /\ FocusManagerInit /\ TreeMenuInit /\ NavigatorInit

\* the keys, the selection and the reads; expandNode and collapseNode are
\* reached through Space and Enter
NextTree ==
  \/ \E key \in Keys : handleKeyPress(key) /\ Len(pendingReads') <= MaxReads
  \/ \E index \in 0..(Len(rows) - 1) : setSelectedIndex(index)
  \/ readResolves

SpecTree == TreeInit /\ [][NextTree]_vars

\* setNodes that keeps the expansion set
setNodesKeepingExpanded(newNodes) ==
  /\ nodes' = newNodes
  /\ expanded' = expanded
  /\ rows' = refreshed(newNodes, expanded)
  /\ selectedIndex' = 0
  /\ pendingReads' = [i \in 1..Len(pendingReads) |->
                        [pendingReads[i] EXCEPT !.attached = FALSE]]
  /\ treeSignals' = <<>>
  /\ lastTreeOp' = treeOp("setNodes", "none", FALSE)
  /\ UNCHANGED callbacks
  /\ inputManagerIdle
  /\ focusManagerIdle
  /\ navigatorIdle

\* setNodes(nodes) with a new array of new nodes, as refreshDir passes it:
\* the reads in flight hold nodes of the array it replaces
setNodes(newNodes) ==
  /\ nodes' = newNodes
  /\ expanded' = {}
  /\ rows' = refreshed(newNodes, {})
  /\ selectedIndex' = 0
  /\ pendingReads' = [i \in 1..Len(pendingReads) |->
                        [pendingReads[i] EXCEPT !.attached = FALSE]]
  /\ treeSignals' = <<>>
  /\ lastTreeOp' = treeOp("setNodes", "none", FALSE)
  /\ UNCHANGED callbacks
  /\ inputManagerIdle
  /\ focusManagerIdle
  /\ navigatorIdle

\* the node arrays given to setNodes
RootNodes == forests(MaxRootNodes, TreeNodeKind)

\* the paths of the folders of the tree
folderPaths == {n.path : n \in {m \in allNodes(nodes) : m.type = "folder"}}

\* the tree menu as the orchestrator makes it (no nodes, every callback),
\* then its public methods, called for folders of the tree as the
\* orchestrator and the keys call them, Space and Enter, and the directory
\* reads
NextLoad ==
  \/ \E newNodes \in RootNodes : setNodes(newNodes)
  \/ \E nodeId \in folderPaths :
       expandNode(nodeId) /\ Len(pendingReads') <= MaxLoadReads
  \/ \E nodeId \in folderPaths : collapseNode(nodeId)
  \/ \E key \in {"space", "return"} :
       handleKeyPress(key) /\ Len(pendingReads') <= MaxLoadReads
  \/ \E index \in 0..(Len(rows) - 1) : setSelectedIndex(index)
  \/ readResolves

SpecLoad == Init /\ [][NextLoad]_vars

\* every directory read completes: the oldest read in flight does not stay
\* in flight forever
SpecLoadFair == SpecLoad /\ WF_vars(readResolvesAt(1))

\* ------------------------------------------------------------------------
\* Properties of the TreeMenu
\* ------------------------------------------------------------------------

nodeAt(path) == CHOOSE n \in allNodes(nodes) : n.path = path

\* the paths of the ancestors of the node at path, nearest last
ancestorsOf(path) == {SubSeq(path, 1, k) : k \in 1..(Len(path) - 1)}

\* every ancestor is a folder in the expansion set
Shown(path) ==
  \A a \in ancestorsOf(path) : nodeAt(a).type = "folder" /\ a \in expanded

\* p comes before q in the depth-first pre-order: p is an ancestor of q, or
\* at the first name where they differ p's is the earlier sibling
PreOrderBefore(p, q) ==
  \/ Len(p) < Len(q) /\ SubSeq(q, 1, Len(p)) = p
  \/ \E k \in 1..Len(p) :
       /\ k <= Len(q)
       /\ SubSeq(p, 1, k - 1) = SubSeq(q, 1, k - 1)
       /\ p[k] < q[k]

Opened(n) == n.type = "folder" /\ n.path \in expanded /\ n.children # <<>>

FlattenIsPreOrderOfShown ==
  /\ {rows[i].id : i \in 1..Len(rows)} = {path \in pathsOf(nodes) : Shown(path)}
  /\ \A i, j \in 1..Len(rows) : i < j => PreOrderBefore(rows[i].id, rows[j].id)
  /\ \A i \in 1..Len(rows) :
       /\ rows[i].depth = Cardinality(ancestorsOf(rows[i].id))
       /\ rows[i].kind = nodeAt(rows[i].id).type
       /\ IF Opened(nodeAt(rows[i].id))
          THEN i < Len(rows) /\ rows[i + 1].id = nodeAt(rows[i].id).children[1].path
          ELSE i = Len(rows) \/ rows[i + 1].depth <= rows[i].depth

\* C18: for every node tree and expansion set flattenTree returns exactly the
\* pre-order depth-first sequence of the nodes all of whose ancestors are
\* folders in the expansion set, each once, with depth the number of its
\* ancestors; a folder's children follow it immediately, and only when its
\* path is in the expansion set and it has a child.
C18_FlattenPreOrder == lastTreeOp.op = "refresh" => FlattenIsPreOrderOfShown

\* the tree of the unit test: a root, its folder with one file, and a second
\* file of the root, all expanded
C18_Witness ==
  /\ lastTreeOp.op = "refresh"
  /\ Len(rows) = 4
  /\ rows[3].depth = 2
  /\ rows[4].depth = 1

onGoUpInvoked == \E i \in 1..Len(treeSignals) : treeSignals[i].fn = "onGoUp"

\* the rows before the selected one that end moveToParent's backward scan:
\* those no deeper than one level above it
scanEnds ==
  {i \in 0..(selectedIndex - 1) : rowAt(i).depth <= rowAt(selectedIndex).depth - 1}

\* the last of a non-empty set of indices
lastOf(indices) == CHOOSE i \in indices : \A j \in indices : j <= i

LeftWalksToParent ==
  lastTreeOp'.op = "handleKeyPress" /\ lastTreeOp'.arg = "left" =>
    (handleKeyPress("left") /\ hasRow(selectedIndex) /\ rowAt(selectedIndex).depth > 0
     => /\ selectedIndex' =
             IF scanEnds # {}
                  /\ rowAt(lastOf(scanEnds)).depth = rowAt(selectedIndex).depth - 1
             THEN lastOf(scanEnds)
             ELSE selectedIndex
        /\ UNCHANGED <<nodes, expanded, rows>>
        /\ ~onGoUpInvoked')

\* C19: Left on a selected row at depth d > 0 selects the nearest preceding
\* row of depth exactly d - 1; if the backward scan meets a row of depth
\* less than d - 1 first, the selection stays; either way the nodes and the
\* expansion set are unchanged and onGoUp is not invoked.
C19_LeftSelectsParentRow == [][LeftWalksToParent]_vars

\* Left was handled without a callback and left the selection on a depth-1
\* folder whose two children are shown below it: it came from one of them
C19_Witness ==
  /\ lastTreeOp = treeOp("handleKeyPress", "left", TRUE)
  /\ treeSignals = <<>>
  /\ hasRow(selectedIndex + 2)
  /\ rowAt(selectedIndex).depth = 1
  /\ rowAt(selectedIndex + 1).depth = 2
  /\ rowAt(selectedIndex + 2).depth = 2

GoUpOnlyFromLeftAtDepth0 ==
  onGoUpInvoked' =>
    /\ handleKeyPress("left")
    /\ \A key \in Keys \ {"left"} : ~handleKeyPress(key)
    /\ hasRow(selectedIndex)
    /\ rowAt(selectedIndex).depth = 0
    /\ UNCHANGED <<selectedIndex, expanded>>

\* C20: onGoUp is invoked only by Left pressed while the selected row is at
\* depth 0, and that key leaves the selection and the expansion set
\* unchanged; no other key, no Left at depth > 0 and no other call invokes it.
C20_GoUpOnlyFromLeftAtRoot == [][GoUpOnlyFromLeftAtDepth0]_vars

\* onGoUp was invoked from the second of two root rows, below an opened
\* folder
C20_Witness ==
  /\ onGoUpInvoked
  /\ lastTreeOp = treeOp("handleKeyPress", "left", TRUE)
  /\ selectedIndex > 1
  /\ hasRow(selectedIndex)
  /\ rowAt(selectedIndex).depth = 0
  /\ expanded # {}

signalled(fn) == \E i \in 1..Len(treeSignals) : treeSignals[i].fn = fn

\* the key went past handleTreeNavigation: it was offered to onKeyPress when
\* there is one, and without one only the SelectRenderable could consume it
passedOn ==
  /\ treeSignals' = IF "onKeyPress" \in callbacks
                    THEN <<treeSignal("onKeyPress", <<>>)>> ELSE <<>>
  /\ "onKeyPress" \notin callbacks =>
       lastTreeOp'.consumed = (lastTreeOp'.arg \in {"up", "down", "return"})

pressed(key) == lastTreeOp'.op = "handleKeyPress" /\ lastTreeOp'.arg = key

RightStepsIn ==
  pressed("right") /\ hasRow(selectedIndex) =>
    /\ UNCHANGED <<nodes, expanded, rows, pendingReads, selectedIndex>>
    /\ getSelectedNode.type = "folder" /\ "onNodeSelected" \in callbacks =>
         /\ treeSignals' = <<treeSignal("onNodeSelected", rowAt(selectedIndex).id)>>
         /\ lastTreeOp'.consumed
    /\ getSelectedNode.type # "folder" =>
         /\ passedOn
         /\ ~signalled("onNodeSelected")'
         /\ ~signalled("onGoUp")'

\* C21: Right on a selected folder row calls onNodeSelected for that folder
\* (when the options gave one) and never expands in place: the nodes with
\* their loaded flags, the expansion set, the rows and the reads in flight
\* are as before the key; Right on a row that is not a folder is not handled
\* by the tree and calls neither onNodeSelected nor onGoUp.
C21_RightActivatesFolderOnly == [][RightStepsIn]_vars

\* Right called onNodeSelected for a collapsed folder that is not loaded,
\* and no read was started
C21_Witness ==
  /\ lastTreeOp = treeOp("handleKeyPress", "right", TRUE)
  /\ hasRow(selectedIndex)
  /\ treeSignals = <<treeSignal("onNodeSelected", rowAt(selectedIndex).id)>>
  /\ getSelectedNode.type = "folder"
  /\ ~getSelectedNode.loaded
  /\ rowAt(selectedIndex).id \notin expanded
  /\ pendingReads = <<>>

\* the toggle of the selected folder: an expanded folder leaves the expansion
\* set; a collapsed folder enters it at once when it is loaded, and otherwise
\* its directory read starts and the set waits for that read
Toggled ==
  LET path == rowAt(selectedIndex).id
  IN /\ IF path \in expanded
        THEN expanded' = expanded \ {path} /\ pendingReads' = pendingReads
        ELSE IF getSelectedNode.loaded
        THEN expanded' = expanded \cup {path} /\ pendingReads' = pendingReads
        ELSE /\ expanded' = expanded
             /\ pendingReads' = Append(pendingReads, [path |-> path, attached |-> TRUE])
     /\ rows' = refreshed(nodes, expanded')
     /\ UNCHANGED <<nodes, selectedIndex>>

SpaceToggles ==
  pressed("space") /\ hasRow(selectedIndex) =>
    IF getSelectedNode.type = "folder"
    THEN /\ Toggled
         /\ treeSignals' = <<>>
         /\ lastTreeOp'.consumed
    ELSE /\ UNCHANGED <<nodes, expanded, rows, pendingReads, selectedIndex>>
         /\ passedOn

SpaceFlipsMembership ==
  pressed("space") /\ hasRow(selectedIndex) =>
    IF getSelectedNode.type = "folder"
    THEN /\ (rowAt(selectedIndex).id \in expanded') # (rowAt(selectedIndex).id \in expanded)
         /\ ~signalled("onNodeSelected")'
         /\ ~signalled("onGoUp")'
         /\ selectedIndex' = selectedIndex
    ELSE UNCHANGED <<nodes, expanded, rows, pendingReads, selectedIndex>>

\* C22 as stated: Space on a selected folder row flips the membership of
\* that folder's path in the expansion set, calls neither onNodeSelected nor
\* onGoUp and leaves the selection; Space on a row that is not a folder
\* changes nothing.
C22_SpaceFlipsMembership == [][SpaceFlipsMembership]_vars

\* C22: Space on a selected folder row takes an expanded folder's path out
\* of the expansion set and puts a collapsed loaded folder's path into it;
\* on a collapsed folder that is not loaded it starts the directory read
\* and leaves the expansion set as it is; it calls no callback and leaves
\* the selection; Space on a row that is not a folder changes nothing.
C22_SpaceTogglesFolder == [][SpaceToggles]_vars

\* Space has just started the read of the selected folder, a child of an
\* expanded folder: it is not loaded and not yet in the expansion set
C22_Witness ==
  /\ lastTreeOp = treeOp("handleKeyPress", "space", TRUE)
  /\ hasRow(selectedIndex)
  /\ rowAt(selectedIndex).depth > 0
  /\ getSelectedNode.type = "folder"
  /\ ~getSelectedNode.loaded
  /\ rowAt(selectedIndex).id \notin expanded
  /\ pendingReads = <<[path |-> rowAt(selectedIndex).id, attached |-> TRUE]>>

EnterTogglesOrActivates ==
  pressed("return") /\ hasRow(selectedIndex) /\ getSelectedNode # NoNode =>
    IF getSelectedNode.type = "folder"
    THEN /\ Toggled
         /\ treeSignals' = <<>>
         /\ lastTreeOp'.consumed
    ELSE /\ UNCHANGED <<nodes, expanded, rows, pendingReads, selectedIndex>>
         /\ treeSignals' =
              IF "onNodeSelected" \in callbacks
              THEN <<treeSignal("onNodeSelected", rowAt(selectedIndex).id)>>
              ELSE <<>>
         /\ lastTreeOp'.consumed

\* C23: Enter on a selected folder row does to the expansion set what Space
\* does and calls no callback; Enter on a file or action row calls
\* onNodeSelected for that node (when the options gave one) and changes
\* neither the expansion set nor the selection.
C23_EnterTogglesFolderActivatesFile == [][EnterTogglesOrActivates]_vars

\* Enter called onNodeSelected for a file shown below its expanded folder
C23_Witness ==
  /\ lastTreeOp = treeOp("handleKeyPress", "return", TRUE)
  /\ hasRow(selectedIndex)
  /\ getSelectedNode.type = "file"
  /\ rowAt(selectedIndex).depth > 0
  /\ treeSignals = <<treeSignal("onNodeSelected", rowAt(selectedIndex).id)>>

SetNodesResets ==
  lastTreeOp'.op = "setNodes" =>
    /\ nodes' \in RootNodes
    /\ expanded' = {}
    /\ rows' = [i \in 1..Len(nodes') |-> treeRow(nodes'[i], 0)]
    /\ selectedIndex' = 0

\* C24: setNodes(nodes) in any state replaces the nodes by the given ones,
\* empties the expansion set, makes the rows the given root nodes in order,
\* each at depth 0 (flattenTree of the nodes with nothing expanded), and
\* selects row 0.
C24_SetNodesResets == [][SetNodesResets]_vars

\* setNodes was called while a directory read was in flight
C24_Witness ==
  /\ lastTreeOp.op = "setNodes"
  /\ pendingReads # <<>>
  /\ nodes # <<>>
  /\ expanded = {}
  /\ selectedIndex = 0

\* C25: in every state reached by setNodes, expandNode (with the completion
\* of its read) and collapseNode, every path in the expansion set is the
\* path of a folder node of the current nodes.
C25_ExpandedAreFoldersOfTheTree == expanded \subseteq folderPaths

called(name) == lastTreeOp'.op = name

\* the node the tree holds at path
held(forest, path) == findNodeById(path, forest)

CollapseOnlyHides ==
  /\ called("collapseNode") =>
       /\ expanded' = expanded \ {lastTreeOp'.at}
       /\ rows' = refreshed(nodes, expanded')
       /\ UNCHANGED <<nodes, pendingReads>>
  /\ lastTreeOp.op = "collapseNode" /\ called("expandNode")
       /\ lastTreeOp'.at = lastTreeOp.at /\ held(nodes, lastTreeOp.at).loaded =>
         /\ lastTreeOp.at \in expanded'
         /\ UNCHANGED <<nodes, pendingReads>>

resolved == {i \in 1..Len(pendingReads) : pendingReads' = readsAfter(i)}

\* what a directory read of dirPath can give expandNode
listings(dirPath) == {readDirectory(dirPath, read) : read \in readdir(dirPath)}

ExpandLoadsThenShows ==
  /\ called("expandNode") =>
       IF held(nodes, lastTreeOp'.at).type = "folder" /\ ~held(nodes, lastTreeOp'.at).loaded
       THEN /\ pendingReads' =
                 Append(pendingReads, [path |-> lastTreeOp'.at, attached |-> TRUE])
            /\ UNCHANGED <<nodes, expanded, rows>>
       ELSE /\ expanded' = expanded \cup {lastTreeOp'.at}
            /\ rows' = refreshed(nodes, expanded')
            /\ UNCHANGED <<nodes, pendingReads>>
  /\ ~called("setNodes") =>
       \A path \in pathsOf(nodes) :
         /\ held(nodes, path).type = "folder" /\ ~held(nodes, path).loaded =>
              /\ held(nodes', path).loaded \/ (path \notin expanded /\ path \in expanded') =>
                   /\ called("readResolves")
                   /\ \E i \in resolved : pendingReads[i].path = path
              /\ held(nodes', path).loaded =>
                   held(nodes', path).children \in listings(path)
  /\ called("readResolves") =>
       \A i \in resolved :
         /\ pendingReads[i].path \in expanded'
         /\ rows' = refreshed(nodes', expanded')
         /\ pendingReads[i].attached =>
              /\ held(nodes', pendingReads[i].path).loaded
              /\ held(nodes', pendingReads[i].path).children
                   \in listings(pendingReads[i].path)

\* C27: expandNode(path) on a folder that is not loaded only starts a
\* directory read: nodes, expansion set and rows stay; the folder becomes
\* loaded, and its path enters the expansion set, only in the step in which
\* a read of that path completes, which stores the read's result as the
\* children, sets loaded, adds the path and recomputes the rows; expandNode
\* on a loaded folder adds the path and recomputes the rows in the same
\* step, with no read.
C27_ExpandReadsThenAdds == [][ExpandLoadsThenShows]_vars

\* a read has just completed with a listing: its folder is loaded, in the
\* expansion set, and its two children are rows
C27_Witness ==
  /\ lastTreeOp = treeOp("readResolves", "listed", FALSE)
  /\ pendingReads = <<>>
  /\ \E path \in expanded :
       /\ held(nodes, path).loaded
       /\ Len(held(nodes, path).children) = 2
       /\ \E i \in 1..Len(rows) : rows[i].id = Append(path, 2)

FailedReadLoadsNothing ==
  /\ called("readResolves") /\ lastTreeOp'.arg = "threw" =>
       \A i \in resolved :
         /\ pendingReads[i].path \in expanded'
         /\ pendingReads[i].attached =>
              /\ held(nodes', pendingReads[i].path).loaded
              /\ held(nodes', pendingReads[i].path).children = <<>>
  /\ called("expandNode") /\ held(nodes, lastTreeOp'.at).loaded
       /\ held(nodes, lastTreeOp'.at).children = <<>> =>
         /\ pendingReads' = pendingReads
         /\ lastTreeOp'.at \in expanded'

\* C28: when fs.readdir throws, readDirectory gives an empty list and the
\* expand completes like any other: the folder is loaded with no children
\* and its path is in the expansion set; an expandNode of a folder loaded
\* with no children starts no read.
C28_FailedReadCompletesExpand == [][FailedReadLoadsNothing]_vars

\* the read of a folder above depth MaxDepth, where directories list a file
\* and a folder, has just thrown: the folder is loaded, childless, expanded
C28_Witness ==
  /\ lastTreeOp = treeOp("readResolves", "threw", FALSE)
  /\ \E path \in expanded :
       /\ Len(path) <= MaxDepth
       /\ held(nodes, path).type = "folder"
       /\ held(nodes, path).loaded
       /\ held(nodes, path).children = <<>>

CollapseDuringReadWins ==
  lastTreeOp.op = "collapseNode" /\ called("readResolves") =>
    \A i \in resolved :
      pendingReads[i].path = lastTreeOp.at /\ pendingReads[i].attached =>
        /\ held(nodes', lastTreeOp.at).loaded
        /\ held(nodes', lastTreeOp.at).children \in listings(lastTreeOp.at)
        /\ lastTreeOp.at \notin expanded'
        /\ \A k \in 1..Len(rows') : ~isUnder(rows'[k].id, lastTreeOp.at)

\* C29: when collapseNode(path) has run while a read started by
\* expandNode(path) is in flight, the completion of that read stores the
\* children and sets loaded, and leaves the folder collapsed: its path is
\* not in the expansion set and none of its children is a row.
C29_CollapseDuringReadStaysCollapsed == [][CollapseDuringReadWins]_vars

\* a read of the node the tree holds at path is in flight
inFlight(path) ==
  \E i \in 1..Len(pendingReads) : pendingReads[i] = [path |-> path, attached |-> TRUE]

\* the path this step asks to expand: expandNode's argument, or the selected
\* collapsed folder under Space or Enter
asked ==
  IF called("expandNode") THEN {lastTreeOp'.at}
  ELSE IF (pressed("space") \/ pressed("return")) /\ hasRow(selectedIndex)
          /\ getSelectedNode.type = "folder" /\ rowAt(selectedIndex).id \notin expanded
  THEN {rowAt(selectedIndex).id}
  ELSE {}

\* the reads of path among reads
readsOf(reads, path) == {i \in 1..Len(reads) : reads[i].path = path}

SecondExpandReadsAgain ==
  /\ \A path \in asked :
       held(nodes, path).type = "folder" /\ ~held(nodes, path).loaded /\ inFlight(path) =>
         /\ pendingReads' = Append(pendingReads, [path |-> path, attached |-> TRUE])
         /\ UNCHANGED <<nodes, expanded, rows>>
  /\ called("readResolves") =>
       \A i \in resolved :
         /\ Cardinality(readsOf(pendingReads', pendingReads[i].path))
              = Cardinality(readsOf(pendingReads, pendingReads[i].path)) - 1
         /\ pendingReads[i].attached =>
              /\ \A j \in readsOf(pendingReads', pendingReads[i].path) :
                   pendingReads'[j].attached
                     = pendingReads[IF j < i THEN j ELSE j + 1].attached
              /\ held(nodes', pendingReads[i].path).loaded
              /\ held(nodes', pendingReads[i].path).children =
                   IF lastTreeOp'.arg = "threw" THEN <<>>
                   ELSE readDirectory(pendingReads[i].path,
                          CHOOSE read \in readdir(pendingReads[i].path) : ~read.threw)

\* C30: expandNode, Space or Enter on a folder that is not loaded and whose
\* read is in flight starts a second read of the same path and changes
\* nothing else; the completion of either read leaves the other in flight,
\* and each completion stores its own result as the node's children and
\* sets loaded, whatever the node held before.
C30_SecondExpandStartsSecondRead == [][SecondExpandReadsAgain]_vars

\* the first of two reads of a folder has completed with a listing and the
\* second is still in flight on the folder, which is now loaded
C30_Witness ==
  /\ lastTreeOp = treeOp("readResolves", "listed", FALSE)
  /\ Len(pendingReads) = 1
  /\ pendingReads[1].attached
  /\ held(nodes, pendingReads[1].path).loaded
  /\ Len(held(nodes, pendingReads[1].path).children) = 2

\* Space or Enter is pressed on the selected folder, which is not loaded
toggledUnloaded ==
  /\ pressed("space") \/ pressed("return")
  /\ hasRow(selectedIndex)
  /\ getSelectedNode.type = "folder"
  /\ ~getSelectedNode.loaded

ConsumedBeforeLoad ==
  /\ toggledUnloaded =>
       /\ lastTreeOp'.consumed
       /\ UNCHANGED <<nodes, expanded, rows>>
       /\ pendingReads' = Append(pendingReads,
                                 [path |-> rowAt(selectedIndex).id, attached |-> TRUE])
  /\ called("readResolves") => rows' = flattenTree(nodes', expanded', 0, <<>>)

\* C31: Space or Enter on a folder that is not loaded is consumed and only
\* starts the directory read: the nodes with their loaded flags, the
\* expansion set and the rows are as before the key; the step in which the
\* read completes leaves the rows equal to flattenTree of the nodes and the
\* expansion set.
C31_ConsumedBeforeReadCompletes == [][ConsumedBeforeLoad]_vars

\* C32: in every state between two operations (wherever a key can be
\* dispatched) the rows are flattenTree of the current nodes and the current
\* expansion set: setNodes, expandNode, collapseNode and the completion of a
\* read recompute the rows before they return.
C32_RowsAreFlattenOfTree == rows = flattenTree(nodes, expanded, 0, <<>>)

\* a read has completed below an expanded folder: rows of three depths
C32_Witness ==
  /\ lastTreeOp.op = "readResolves"
  /\ \E i \in 1..Len(rows) : rows[i].depth = 2
  /\ Cardinality(expanded) >= 2

\* the paths a folder of the tree can have
FolderPaths == UNION {[1..n -> 1..MaxRootNodes] : n \in 1..(MaxDepth + 2)}

\* expandNode(path) awaits a read for the folder the tree holds at path
loading(path) == [path |-> path, attached |-> TRUE] \in {pendingReads[i] : i \in 1..Len(pendingReads)}

\* the folder the read was started for is no longer in the tree
replaced(path) == [path |-> path, attached |-> FALSE] \in {pendingReads[i] : i \in 1..Len(pendingReads)}

\* C33: when every directory read completes, every expandNode that awaits a
\* read for a folder of the tree comes to its end: the folder is loaded and
\* its path in the expansion set (or the folder has been replaced in the
\* tree meanwhile), whatever keys and calls happen in between; no read stays
\* in flight forever.
C33_EveryExpandCompletes ==
  \A path \in FolderPaths :
    loading(path) ~> \/ held(nodes, path).loaded /\ path \in expanded
                     \/ replaced(path)

\* the read of a nested folder has completed and no read is in flight: the
\* folder is loaded and expanded, with the selection moved off the first row
C33_Witness ==
  /\ lastTreeOp.op = "readResolves"
  /\ pendingReads = <<>>
  /\ selectedIndex > 0
  /\ \E path \in FolderPaths :
       /\ Len(path) = 2
       /\ held(nodes, path).loaded
       /\ path \in expanded

\* the stack position below p the scan calls a callback of next when the
\* context at p is passed: the nearest one with isActive or a handler, 0 when
\* the stack ends or a context without callbacks breaks the loop before
RECURSIVE nextOffered(_)
nextOffered(p) ==
  IF p <= 1 THEN 0
  ELSE IF contexts[contextStack[p - 1]].hasIsActive
          \/ contexts[contextStack[p - 1]].handlers # <<>>
  THEN p - 1
  ELSE IF contexts[contextStack[p - 1]].blocksLowerPriority THEN 0
  ELSE nextOffered(p - 1)

\* C34: a context on the stack with blocksLowerPriority = true whose
\* isActive() answers false is no floor: none of its handlers is called and
\* the key goes on to the contexts below it: the next callback called is
\* one of the nearest lower context that has a callback, unless an active
\* blocking context without callbacks lies in between.
C34_InactiveBlockerIsNoFloor ==
  dispatched =>
    \A i \in Calls :
      (/\ invoked[i].fn = "isActive" /\ ~invoked[i].answer
       /\ contexts[invoked[i].scope].blocksLowerPriority) =>
        LET c == invoked[i].scope
            p == CHOOSE q \in 1..Len(contextStack) : contextStack[q] = c
        IN /\ \A j \in Calls : invoked[j].scope = c => j = i
           /\ nextOffered(p) > 0 =>
                /\ i < Len(invoked)
                /\ invoked[i + 1].scope = contextStack[nextOffered(p)]

\* an inactive blocking context holding a handler was passed and a handler
\* of a context below it consumed the key
C34_Witness ==
  /\ dispatched
  /\ result
  /\ \E i \in Calls :
       /\ invoked[i].fn = "isActive" /\ ~invoked[i].answer
       /\ contexts[invoked[i].scope].blocksLowerPriority
       /\ contexts[invoked[i].scope].handlers # <<>>
       /\ i + 2 = Len(invoked)
       /\ Consumed(Len(invoked))

\* the rows start at depth 0 and no row is more than one level below the
\* row before it
DepthsStepByOne ==
  /\ rows # <<>> => rowAt(0).depth = 0
  /\ \A i \in 1..(Len(rows) - 1) : rowAt(i).depth <= rowAt(i - 1).depth + 1

\* row p is the row of the folder that holds the node of row i
parentRowOf(p, i) ==
  /\ rowAt(p).kind = "folder"
  /\ rowAt(p).depth = rowAt(i).depth - 1
  /\ \E k \in 1..Len(findNodeById(rowAt(p).id, nodes).children) :
       findNodeById(rowAt(p).id, nodes).children[k].path = rowAt(i).id

\* C35: the rows flattenTree produced start at depth 0 and each row's depth
\* is at most one more than the depth of the row before it; for every row at
\* a depth d > 0 the backward scan of moveToParent selects a row (it neither
\* runs out of rows nor meets a row shallower than d - 1 first), no row
\* between the two is shallower than d, and the row selected is the row of
\* the folder whose children hold the node.
C35_ScanFindsParentRow ==
  lastTreeOp.op = "refresh" =>
    /\ DepthsStepByOne
    /\ \A i \in 0..(Len(rows) - 1) :
         rowAt(i).depth > 0 =>
           /\ moveToParent(i) >= 0
           /\ moveToParent(i) < i
           /\ \A j \in (moveToParent(i) + 1)..(i - 1) :
                rowAt(j).depth >= rowAt(i).depth
           /\ parentRowOf(moveToParent(i), i)

\* a row at depth 1 whose parent row is two rows before it, a sibling lying
\* between them, followed by a row back at depth 0
C35_Witness ==
  /\ lastTreeOp.op = "refresh"
  /\ \E i \in 2..(Len(rows) - 2) :
       /\ rowAt(i).depth = 1
       /\ rowAt(i - 1).depth = 1
       /\ moveToParent(i) = i - 2
       /\ rowAt(i + 1).depth = 0

\* C36: every folder of the tree whose path is in the expansion set has
\* loaded = true.
C36_ExpandedFoldersAreLoaded ==
  \A path \in expanded :
    (held(nodes, path) # NoNode /\ held(nodes, path).type = "folder") =>
      held(nodes, path).loaded

\* the index of the row of the node at path, -1 when it has no row
rowOf(path) ==
  IF \E i \in 0..(Len(rows) - 1) : rowAt(i).id = path
  THEN CHOOSE i \in 0..(Len(rows) - 1) : rowAt(i).id = path
  ELSE -1

\* a read completes for a folder whose row lies above the selected row
completesAbove ==
  /\ called("readResolves")
  /\ hasRow(selectedIndex)
  /\ \E i \in resolved :
       rowOf(pendingReads[i].path) >= 0 /\ rowOf(pendingReads[i].path) < selectedIndex

SelectionStaysOnNode ==
  completesAbove =>
    /\ selectedIndex' >= 0 /\ selectedIndex' < Len(rows')
    /\ rows'[selectedIndex' + 1].id = rowAt(selectedIndex).id

\* C37: when the read of an expand completes and the rows are recomputed
\* while the selection is on a row below the row of the expanded folder, the
\* selected row refers to the same node after the completion as before it.
C37_CompletionKeepsSelectedNode == [][SelectionStaysOnNode]_vars

\* the step expanded or collapsed a node, started a read, moved the
\* selection, activated a node or went up a directory
navigated ==
  \/ expanded' # expanded
  \/ pendingReads' # pendingReads
  \/ selectedIndex' # selectedIndex
  \/ signalled("onNodeSelected")'
  \/ signalled("onGoUp")'

ParentAskedBeforeNavigation ==
  \A key \in TreeKeys :
    (pressed(key) /\ "onKeyPress" \in callbacks /\ navigated) =>
      /\ signalled("onKeyPress")'
      /\ ~lastTreeOp'.consumed

\* C38: the tree navigates for left, right, space or return only when the
\* parent's onKeyPress does not consume the key: with an onKeyPress callback
\* in the options, a step for one of these keys that expands, collapses,
\* starts a read, moves the selection, activates a node or goes up has
\* called onKeyPress and had it decline the key.
C38_ParentConsumesBeforeTree == [][ParentAskedBeforeNavigation]_vars

\* the callbacks a dispatch calls in a context are those of the record the
\* map holds for it
callsOfRecords ==
  \A i \in 1..Len(invoked') :
    invoked'[i].scope # "global" =>
      IF invoked'[i].fn = "isActive"
      THEN contexts[invoked'[i].scope].hasIsActive
      ELSE \E p \in 1..Len(contexts[invoked'[i].scope].handlers) :
             contexts[invoked'[i].scope].handlers[p].id = invoked'[i].id

RegisterReplacesRecord ==
  /\ lastOp'.op = "registerContext" /\ lastOp'.present =>
       /\ contexts'[lastOp'.context.id] = lastOp'.context
       /\ DOMAIN contexts' = DOMAIN contexts
       /\ \A id \in DOMAIN contexts \ {lastOp'.context.id} : contexts'[id] = contexts[id]
       /\ contextStack' = contextStack
       /\ globalHandlers' = globalHandlers
  /\ lastOp'.op = "handleKey" => callsOfRecords

\* C39: registerContext(ctx) with an id that is already registered puts ctx
\* in the place of the record of that id, handlers, blocksLowerPriority and
\* isActive included, and leaves the other records, the context stack and
\* the global handlers as they are; a dispatch calls, in a context, only
\* isActive and handlers of the record the map holds for it.
C39_RegisterReplacesRecord == [][RegisterReplacesRecord]_vars

\* a context that lies at the bottom of the stack, below another one, has
\* just been registered again, with a record that has isActive and no
\* handlers, and no handler is left in the manager
C39_Witness ==
  /\ lastOp.op = "registerContext"
  /\ lastOp.present
  /\ Len(contextStack) >= 2
  /\ contextStack[1] = lastOp.context.id
  /\ lastOp.context.handlers = <<>>
  /\ lastOp.context.hasIsActive
  /\ handlerCount = 0

\* ------------------------------------------------------------------------
\* The navigator's keys (Navigator.ts)
\* ------------------------------------------------------------------------

\* the depth of os.homedir()
HomeDir == 2

\* the navigator as the functions below pass it on; calls collects the
\* functions gone through
navigator ==
  [visible |-> overlayRootVisible, value |-> overlayValue,
   focused |-> fileTreeFocused, index |-> focusIndex, dir |-> currentDir,
   calls |-> <<>>]

went(s, fn) == [s EXCEPT !.calls = Append(@, fn)]

\* showOverlay(initialValue): "" stands for no initial value
showOverlay(s, initialValue) ==
  [went(s, "showOverlay") EXCEPT
     !.visible = TRUE,
     !.value = IF initialValue # "" THEN initialValue ELSE @,
     !.focused = FALSE]

\* hideOverlay(); isHidingOverlay is false whenever it is entered, as it is
\* set and reset within the call
hideOverlay(s) ==
  [went(s, "hideOverlay") EXCEPT !.visible = FALSE, !.value = "", !.focused = TRUE]

\* focusUpdate(): blur() on every focusable, focus() on focusable[focusIndex]
focusUpdate(s) ==
  [went(s, "focusUpdate") EXCEPT
     !.focused = s.index + 1 \in DOMAIN focusable /\ focusable[s.index + 1] = "fileTree"]

\* refreshDir(dir) up to its await: currentDir = dir. What follows the await
\* acts on the tree alone: the setNodes and expandNode of SpecLoad.
refreshDir(s, dir) == [went(s, "refreshDir") EXCEPT !.dir = dir]

\* path.dirname(dir)
dirname(dir) == IF dir = 0 THEN 0 ELSE dir - 1

\* handleKey(key) of the navigator
navigatorHandleKey(s, key) ==
  IF s.visible THEN went(s, "handleKey")
  ELSE IF key.ctrl /\ key.name = "f" THEN showOverlay(went(s, "handleKey"), "")
  ELSE IF key.name = "/" THEN showOverlay(went(s, "handleKey"), "/")
  ELSE IF key.ctrl /\ (key.name = "l" \/ key.sequence = "\\x0c")
  THEN showOverlay(went(s, "handleKey"), "")
  ELSE IF key.name = "tab"
  THEN focusUpdate([went(s, "handleKey") EXCEPT
                      !.index = (@ + (IF key.shift THEN -1 ELSE 1) + Len(focusable))
                                  % Len(focusable)])
  ELSE went(s, "handleKey")

\* the keypress listener with the overlay test left to handleKey
keypressPassedOn(s, key) ==
  IF s.visible /\ key.name \in {"escape", "return", "enter"}
  THEN hideOverlay(s)
  ELSE navigatorHandleKey(s, key)

\* the body of the keypress listener run() installs
keypress(s, key) ==
  IF s.visible
  THEN IF key.name = "escape" THEN hideOverlay(s)
       ELSE IF key.name = "return" \/ key.name = "enter" THEN hideOverlay(s)
       ELSE s
  ELSE navigatorHandleKey(s, key)

Commands == {"help", "up", "home", "root", "search", "other"}

\* handleCommand(command, args)
handleCommand(s, command) ==
  CASE command = "up" ->
         IF dirname(s.dir) # s.dir
         THEN refreshDir(went(s, "handleCommand"), dirname(s.dir))
         ELSE went(s, "handleCommand")
    [] command = "home" -> refreshDir(went(s, "handleCommand"), HomeDir)
    [] command = "root" -> refreshDir(went(s, "handleCommand"), 0)
    [] OTHER -> went(s, "handleCommand")

\* the navigator after a call: s, with the call recorded
becomes(s, name, key) ==
  /\ overlayRootVisible' = s.visible
  /\ overlayValue' = s.value
  /\ fileTreeFocused' = s.focused
  /\ focusIndex' = s.index
  /\ currentDir' = s.dir
  /\ navigatorCalls' = s.calls
  /\ lastKeyOp' = keyOp(name, key)
  /\ inputManagerIdle
  /\ UNCHANGED focusVars
  /\ UNCHANGED treeVars

\* getKeyHandler().on("keypress", globalKeyHandler): a key arrives
globalKeyHandler(key) == becomes(keypress(navigator, key), "globalKeyHandler", key)

\* the overlay input bar's onCommand
onCommand(command) ==
  becomes(handleCommand(hideOverlay(navigator), command), "onCommand", NoKey)

\* the tree's onGoUp
onGoUp ==
  becomes(IF dirname(currentDir) # currentDir
          THEN refreshDir(navigator, dirname(currentDir))
          ELSE navigator,
          "onGoUp", NoKey)

\* the tree's onNodeSelected for a folder node, openSelection(node): a
\* folder of the directory shown or its ".." entry
openSelection(dir) == becomes(refreshDir(navigator, dir), "openSelection", NoKey)

NextNavigator ==
  \/ \E key \in ParsedKey : globalKeyHandler(key)
  \/ \E command \in Commands : onCommand(command)
  \/ onGoUp
  \/ \E dir \in {currentDir + 1, dirname(currentDir)} \ {currentDir} :
       dir <= MaxDirDepth /\ openSelection(dir)

SpecNavigator == Init /\ [][NextNavigator]_vars

keyed == lastKeyOp'.op = "globalKeyHandler"

OverlayHoldsKeys ==
  keyed /\ overlayRootVisible =>
    /\ focusIndex' = focusIndex
    /\ currentDir' = currentDir
    /\ IF lastKeyOp'.key.name \in {"escape", "return", "enter"}
       THEN /\ navigatorCalls' = <<"hideOverlay">>
            /\ ~overlayRootVisible'
            /\ fileTreeFocused'
       ELSE /\ navigatorCalls' = <<>>
            /\ UNCHANGED <<overlayRootVisible, overlayValue, fileTreeFocused>>

\* C40: a key that arrives while the overlay is visible goes through neither
\* handleKey nor showOverlay, focusUpdate or refreshDir: escape, return and
\* enter go through hideOverlay alone, which leaves the overlay invisible
\* and the file tree focused, every other key goes through nothing and
\* leaves the overlay and the focus as they are; the focus index and the
\* current directory are as before the key.
C40_OverlayHoldsKeys == [][OverlayHoldsKeys]_vars

\* Return arrived while the overlay was visible, in a directory other than
\* the first, and hid it
C40_Witness ==
  /\ lastKeyOp.op = "globalKeyHandler"
  /\ lastKeyOp.key.name = "return"
  /\ navigatorCalls = <<"hideOverlay">>
  /\ ~overlayRootVisible
  /\ fileTreeFocused
  /\ currentDir # StartDir

====
